---- MODULE Spec2Model ----
(***************************************************************************)
(* Model of the pair_helper assessment service: the stage-gated runner     *)
(* (backend/runner.py, backend/questions.py), the session ledger           *)
(* (backend/sessions.py, backend/app.py) and the struggle detector         *)
(* (pair_programming_voice_bot/struggle_detector.py).                      *)
(*                                                                         *)
(* Python values are represented as follows.                               *)
(*   None               the empty tuple <<>> (NoneVal) for optional floats,*)
(*                      -1 (NoTime) for optional timestamps                *)
(*   a raised exception a record with raised = TRUE and the error kind     *)
(*   a float score      the exact rational as a reduced pair <<num, den>>  *)
(*   process output     the summary lines the regular expressions of       *)
(*                      parse_unittest_output can find in it, plus a tag   *)
(*                      that stands for the rest of the text               *)
(***************************************************************************)
EXTENDS Integers, Sequences, FiniteSets, TLC

VARIABLES
    clock,           \* wall clock read by time.time() / datetime.now()
    det,             \* a stand-alone StruggleDetector instance
    signals,         \* the StruggleSignals that detector has returned
    agg,             \* one call of run_code: arguments and returned value
    mat,             \* one call of materialize_question: arguments, result
    sessions,        \* SessionStore._sessions of backend/app.py
    voice_sessions,  \* VoiceSessionStore._sessions of backend/app.py
    response,        \* the HTTP response of the last request served
    machine,         \* a stand-alone ModeStateMachine and the calls made on it
    agent,           \* a stand-alone PairProgrammingVoiceBot and its workspace
    pending,         \* execute requests whose tests are running
    parsed,          \* an output text and what parse_unittest_output made of it
    called           \* the last call made on the stand-alone detector

vars ==
    <<clock, det, signals, agg, mat, sessions, voice_sessions, response,
      machine, agent, pending, parsed, called>>

----------------------------------------------------------------------------
(* Generic helpers                                                         *)

Min(a, b) == IF a < b THEN a ELSE b

Max(a, b) == IF a > b THEN a ELSE b

Range(s) == {s[i] : i \in 1..Len(s)}

RECURSIVE GCD(_, _)
GCD(a, b) == IF b = 0 THEN a ELSE GCD(b, a % b)

\* Python's seq[:n] for any integer n (a negative n counts from the end).
SliceTo(s, n) ==
    LET stop == IF n < 0 THEN Max(0, Len(s) + n) ELSE Min(n, Len(s))
    IN  SubSeq(s, 1, stop)

NoneVal == <<>>

----------------------------------------------------------------------------
(* backend/config.py                                                       *)

DEFAULT_DURATION_MINUTES == 60

MIN_DURATION_MINUTES == 1

MAX_DURATION_MINUTES == 120

----------------------------------------------------------------------------
(* backend/questions.py: question folders and the workspace materializer   *)

\* The files of the ruleengine question folder that the model distinguishes.
FileNames == {"ruleengine.py", "basicTests.py", "hidden_level2.py",
              "hidden_level3.py", "question.json"}

\* Content of a file: the stock copy of the question folder, or text that
\* came in with an execute request.
StockContent(f) == <<"stock", f>>

CandidateContent(f) == <<"candidate", f>>

\* Stage(name, visible_tests, hidden_tests)
Stage(name, visible, hidden) ==
    [name |-> name, visible_tests |-> visible, hidden_tests |-> hidden]

\* get_hidden_files: the hidden test files that exist in the folder, in the
\* order of hidden_patterns.
HiddenPatterns == <<"hiddenTests.py", "hidden_level2.py", "hidden_level3.py",
                    "hidden_level4.py">>

get_hidden_files(q) ==
    SelectSeq(HiddenPatterns, LAMBDA n : n \in q.root)

\* load_question_config: a question without declared stages gets exactly one
\* synthesized stage.
load_question_config(q) ==
    IF q.stages = <<>>
    THEN [q EXCEPT !.stages =
              <<Stage("Stage 1", <<q.entrypoint>>, get_hidden_files(q))>>]
    ELSE q

\* materialize_question writing every file of the request and copying only
\* the stock files the request did not bring.
materialize_question_trusting(q, override_files) ==
    [f \in DOMAIN override_files \cup (q.root \ {"question.json"}) |->
        IF f \in DOMAIN override_files
        THEN override_files[f] ELSE StockContent(f)]

\* materialize_question: the files of the temp workspace and their content.
\* First loop: every visible file, from the request if it has one, else the
\* stock copy if there is one.  Second loop: every other file of the folder
\* except question.json, from the stock copy (written last, so it wins).
materialize_question(q, override_files) ==
    LET cfg     == load_question_config(q)
        written == {f \in cfg.visible_files :
                        f \in DOMAIN override_files \/ f \in q.root}
        first   == [f \in written |->
                        IF f \in DOMAIN override_files
                        THEN override_files[f] ELSE StockContent(f)]
        copied  == {f \in q.root :
                        f \notin cfg.visible_files /\ f # "question.json"}
    IN  [f \in written \cup copied |->
            IF f \in copied THEN StockContent(f) ELSE first[f]]

----------------------------------------------------------------------------
(* backend/runner.py: the sandboxed runner and the stage aggregator        *)

TIMEOUT_SECONDS == 10

\* The text a test process prints, as far as the runner reads it:
\*   ran       the N of the first "Ran N test(s)" line, -1 without one
\*   failed    whether a "FAILED (...)" line is present
\*   failures, errors   the counts inside the parentheses, 0 when absent
\*   body      stands for everything else in the text
Text(ran, failed, failures, errors, body) ==
    [ran |-> ran, failed |-> failed, failures |-> failures,
     errors |-> errors, body |-> body]

\* The empty string.
EmptyText == Text(-1, FALSE, 0, 0, "")

\* What launching one target in the sandbox produces: the exit status and the
\* text of a finished process, or an ExecutionError.
Completed(returncode, text) ==
    [raised |-> FALSE, returncode |-> returncode, text |-> text,
     error |-> "none"]

Raised(error) ==
    [raised |-> TRUE, returncode |-> 0, text |-> Text(-1, FALSE, 0, 0, "none"),
     error |-> error]

\* parse_unittest_output without the lower bound of passed.
parse_unittest_output_unclamped(output) ==
    LET total    == IF output.ran >= 0 THEN output.ran ELSE 0
        failures == IF output.failed THEN output.failures ELSE 0
        errors   == IF output.failed THEN output.errors ELSE 0
    IN  <<total - failures - errors, total>>

\* parse_unittest_output: <<passed, total>>
parse_unittest_output(output) ==
    LET total    == IF output.ran >= 0 THEN output.ran ELSE 0
        failures == IF output.failed THEN output.failures ELSE 0
        errors   == IF output.failed THEN output.errors ELSE 0
        passed   == Max(0, total - failures - errors)
    IN  <<passed, total>>

\* An output text line by line.  A line is "Ran n test(s)", or
\* "FAILED (k=v, ...)" with its comma-separated parts, or any other line;
\* "FAILED ()" has nothing between the parentheses and is no match of
\* FAILED\s+\(([^)]+)\).
RanLine(n) == [kind |-> "ran", n |-> n, parts |-> <<>>]

FailedLine(parts) == [kind |-> "failed", n |-> 0, parts |-> parts]

OtherLine == [kind |-> "other", n |-> 0, parts |-> <<>>]

\* The value of a part "k=v" whose v int() does not accept.
NotANumber == -1

IsRanMatch(line) == line.kind = "ran"

IsFailMatch(line) == line.kind = "failed" /\ line.parts # <<>>

\* re.search: the first match in the text, OtherLine without one.
RECURSIVE search(_, _)
search(IsMatch(_), lines) ==
    IF lines = <<>> THEN OtherLine
    ELSE IF IsMatch(Head(lines)) THEN Head(lines)
    ELSE search(IsMatch, Tail(lines))

\* One iteration of the loop over the parts of the FAILED line.
part_step(acc, part) ==
    IF part[1] = "failures"
    THEN IF part[2] = NotANumber THEN [acc EXCEPT !.raised = TRUE]
         ELSE [acc EXCEPT !.failures = part[2]]
    ELSE IF part[1] = "errors"
    THEN IF part[2] = NotANumber THEN [acc EXCEPT !.raised = TRUE]
         ELSE [acc EXCEPT !.errors = part[2]]
    ELSE acc

\* The loop over the parts; int() raising ValueError ends it.
RECURSIVE read_parts(_, _)
read_parts(parts, acc) ==
    IF parts = <<>> \/ acc.raised THEN acc
    ELSE read_parts(Tail(parts), part_step(acc, Head(parts)))

\* What parse_unittest_output reads in the text before it computes passed.
summary_read(ran_match, fail_match, counts) ==
    IF counts.raised THEN [raised |-> TRUE, text |-> EmptyText]
    ELSE [raised |-> FALSE,
          text |-> Text(IF IsRanMatch(ran_match) THEN ran_match.n ELSE -1,
                        IsFailMatch(fail_match),
                        counts.failures, counts.errors, "")]

read_summary(lines) ==
    summary_read(search(IsRanMatch, lines), search(IsFailMatch, lines),
        read_parts(search(IsFailMatch, lines).parts,
                   [raised |-> FALSE, failures |-> 0, errors |-> 0]))

\* parse_unittest_output on a text given line by line: the pair it returns,
\* or the ValueError of int().
parsed_of(summary) ==
    IF summary.raised
    THEN [raised |-> TRUE, error |-> "ValueError", counts |-> <<0, 0>>]
    ELSE [raised |-> FALSE, error |-> "none",
          counts |-> parse_unittest_output(summary.text)]

parse_lines(lines) == parsed_of(read_summary(lines))

\* docker_command: env[target] is what the container run of target does in
\* the materialized workspace; the three except clauses turn a timeout, a
\* missing docker binary and any other launch failure into ExecutionError.
\* A target that is not in the workspace cannot be opened by the interpreter,
\* which prints an error and exits with status 2.
docker_command(workdir, env, target) ==
    IF target \in DOMAIN workdir THEN env[target]
    ELSE Completed(2, Text(-1, FALSE, 0, 0, "cannot open file"))

\* The dict run_suite builds from a finished process and its parsed counts;
\* launches counts the calls of docker_command behind it.
suite_result(completed, counts) ==
    [raised |-> FALSE, error |-> "none",
     exit_code |-> completed.returncode, output |-> completed.text,
     passed |-> counts[1], total |-> counts[2], launches |-> 1]

\* The ExecutionError of docker_command passing through run_suite.
suite_raised(completed) ==
    [raised |-> TRUE, error |-> completed.error, exit_code |-> 0,
     output |-> completed.text, passed |-> 0, total |-> 0, launches |-> 1]

\* The body of run_suite once docker_command is over.
suite_of(completed) ==
    IF completed.raised THEN suite_raised(completed)
    ELSE suite_result(completed, parse_unittest_output(completed.text))

\* suite_of with a launch failure reported as a target that failed.
suite_of_swallow(completed) ==
    IF completed.raised
    THEN suite_result([completed EXCEPT !.returncode = 1], <<0, 0>>)
    ELSE suite_result(completed, parse_unittest_output(completed.text))

\* run_suite with a launch failure reported as a target that failed.
run_suite_swallow(workdir, env, target) ==
    suite_of_swallow(docker_command(workdir, env, target))

\* run_suite launching the target a second time when the launch failed.
run_suite_retrying(workdir, env, target) ==
    IF docker_command(workdir, env, target).raised
    THEN [suite_of(docker_command(workdir, env, target)) EXCEPT
             !.launches = @ + 1]
    ELSE suite_of(docker_command(workdir, env, target))

\* run_suite: raises what docker_command raises, else the result dict.
run_suite(workdir, env, target) ==
    suite_of(docker_command(workdir, env, target))

\* The locals of run_stage_tests before its loops.
StageStart ==
    [raised |-> FALSE, error |-> "none",
     visible_pass |-> 0, visible_total |-> 0,
     hidden_pass |-> 0, hidden_total |-> 0,
     visible_outputs |-> <<>>, all_exited_zero |-> TRUE, launches |-> 0]

\* One iteration of the loop over stage.visible_tests.
visible_step(acc, result) ==
    IF result.raised
    THEN [acc EXCEPT !.raised = TRUE, !.error = result.error,
                     !.launches = @ + result.launches]
    ELSE [acc EXCEPT !.launches = @ + result.launches,
                     !.visible_pass = @ + result.passed,
                     !.visible_total = @ + result.total,
                     !.visible_outputs = Append(@, result.output),
                     !.all_exited_zero = @ /\ (result.exit_code = 0)]

\* The loop body over stage.hidden_tests keeping the output as the visible
\* loop does.
hidden_step_leaking(acc, result) ==
    IF result.raised
    THEN [acc EXCEPT !.raised = TRUE, !.error = result.error,
                     !.launches = @ + result.launches]
    ELSE [acc EXCEPT !.launches = @ + result.launches,
                     !.hidden_pass = @ + result.passed,
                     !.hidden_total = @ + result.total,
                     !.visible_outputs = Append(@, result.output),
                     !.all_exited_zero = @ /\ (result.exit_code = 0)]

\* One iteration of the loop over stage.hidden_tests.
hidden_step(acc, result) ==
    IF result.raised
    THEN [acc EXCEPT !.raised = TRUE, !.error = result.error,
                     !.launches = @ + result.launches]
    ELSE [acc EXCEPT !.launches = @ + result.launches,
                     !.hidden_pass = @ + result.passed,
                     !.hidden_total = @ + result.total,
                     !.all_exited_zero = @ /\ (result.exit_code = 0)]

\* The two loops of run_stage_tests: the targets are run in order; the first
\* one that raises ends the call.
RECURSIVE run_visible(_, _, _, _)
run_visible(workdir, env, targets, acc) ==
    IF targets = <<>> \/ acc.raised THEN acc
    ELSE run_visible(workdir, env, Tail(targets),
            visible_step(acc, run_suite(workdir, env, Head(targets))))

RECURSIVE run_hidden(_, _, _, _)
run_hidden(workdir, env, targets, acc) ==
    IF targets = <<>> \/ acc.raised THEN acc
    ELSE run_hidden(workdir, env, Tail(targets),
            hidden_step(acc, run_suite(workdir, env, Head(targets))))

\* stage_passed without the exit-status conjunct.
stage_passed_counts_only(visible_pass, visible_total, hidden_pass, hidden_total, all_exited_zero) ==
    (visible_pass = visible_total) /\ (hidden_pass = hidden_total)

\* stage_passed asking for at least one counted test on each side.
stage_passed_needing_tests(visible_pass, visible_total, hidden_pass, hidden_total, all_exited_zero) ==
    (visible_pass = visible_total) /\ (hidden_pass = hidden_total)
        /\ all_exited_zero /\ visible_total > 0 /\ hidden_total > 0

\* stage_passed of run_stage_tests
stage_passed(visible_pass, visible_total, hidden_pass, hidden_total, all_exited_zero) ==
    (visible_pass = visible_total) /\ (hidden_pass = hidden_total)
        /\ all_exited_zero

\* The dict run_stage_tests returns from its locals.
stage_result(acc) ==
    [raised |-> acc.raised, error |-> acc.error, launches |-> acc.launches,
     visible_pass |-> acc.visible_pass, visible_total |-> acc.visible_total,
     hidden_pass |-> acc.hidden_pass, hidden_total |-> acc.hidden_total,
     output |-> SelectSeq(acc.visible_outputs, LAMBDA o : o # EmptyText),
     passed |-> stage_passed(acc.visible_pass, acc.visible_total,
                             acc.hidden_pass, acc.hidden_total,
                             acc.all_exited_zero)]

\* run_stage_tests: visible targets first, then the hidden ones.
run_stage_tests(workdir, env, stage) ==
    stage_result(
        run_hidden(workdir, env, stage.hidden_tests,
            run_visible(workdir, env, stage.visible_tests, StageStart)))

\* One iteration of the loop of run_code.
stage_step(acc, result) ==
    IF result.raised
    THEN [acc EXCEPT !.raised = TRUE, !.error = result.error,
                     !.launches = @ + result.launches]
    ELSE [acc EXCEPT !.launches = @ + result.launches,
                     !.stage_results = Append(@, result)]

\* The loop of run_code over cfg.stages[: max_stage + 1]: the results of the
\* stages run so far, in order; a stage that raises ends the call.
RECURSIVE run_stages(_, _, _, _)
run_stages(workdir, env, stages, acc) ==
    IF stages = <<>> \/ acc.raised THEN acc
    ELSE run_stages(workdir, env, Tail(stages),
            stage_step(acc, run_stage_tests(workdir, env, Head(stages))))

\* Python's seq[i] for any integer i; callers check InIndexRange first.
InIndexRange(s, i) == -Len(s) <= i /\ i < Len(s)

Index(s, i) == IF i < 0 THEN s[Len(s) + i + 1] ELSE s[i + 1]

\* (stages_passed / total_stages) * 100.0
Score(passed, total_stages) ==
    IF total_stages > 0
    THEN <<(passed * 100) \div GCD(passed * 100, total_stages),
           total_stages \div GCD(passed * 100, total_stages)>>
    ELSE <<0, 1>>

\* all(r["passed"] for r in stage_results) if stage_results else False
all_passed_so_far(stage_results) ==
    IF stage_results # <<>>
    THEN \A i \in 1..Len(stage_results) : stage_results[i].passed
    ELSE FALSE

\* unlocked_next decided by the last stage alone.
unlocked_next_last_only(stage_results, max_stage, stage_count) ==
    /\ stage_results # <<>>
    /\ stage_results[Len(stage_results)].passed
    /\ max_stage + 1 < stage_count

\* unlocked_next of run_code
unlocked_next(stage_results, max_stage, stage_count) ==
    all_passed_so_far(stage_results) /\ (max_stage + 1 < stage_count)

\* stages_passed counting every stage that was run.
stages_passed_all_run(stage_results) == Len(stage_results)

\* sum(1 for r in stage_results if r["passed"])
stages_passed(stage_results) ==
    Len(SelectSeq(stage_results, LAMBDA r : r["passed"]))

\* stage_results[-1] if stage_results, else the defaults of the response.
NoStageResult ==
    [visible_pass |-> 0, visible_total |-> 0, hidden_pass |-> 0,
     hidden_total |-> 0, output |-> <<>>, passed |-> FALSE, launches |-> 0]

last_result(stage_results) ==
    IF stage_results # <<>> THEN stage_results[Len(stage_results)]
    ELSE NoStageResult

\* The dict run_code returns.
run_response(cfg, max_stage, stage_results, last) ==
    [raised |-> FALSE, error |-> "none",
     visible |-> [passed |-> last.visible_pass,
                  total  |-> last.visible_total,
                  output |-> last.output],
     hidden  |-> [passed |-> last.hidden_pass,
                  total  |-> last.hidden_total],
     final_score |-> Score(stages_passed(stage_results), Len(cfg.stages)),
     stage   |-> [current_index  |-> max_stage,
                  total_stages   |-> Len(cfg.stages),
                  current_passed |-> last.passed,
                  unlocked_next  |->
                      unlocked_next(stage_results, max_stage,
                                    Len(cfg.stages)),
                  name |-> Index(cfg.stages, max_stage).name]]

\* run_code after its loop: an ExecutionError of a target leaves the call; so
\* does the IndexError of cfg.stages[max_stage].
run_outcome(cfg, max_stage, run) ==
    IF run.raised
    THEN [raised |-> TRUE, error |-> run.error, launches |-> run.launches]
    ELSE IF ~InIndexRange(cfg.stages, max_stage)
    THEN [raised |-> TRUE, error |-> "IndexError",
          launches |-> run.launches]
    ELSE run_response(cfg, max_stage, run.stage_results,
                      last_result(run.stage_results))

\* cfg.stages[: max_stage + 1], the stages the loop of run_code runs.
stages_through(cfg, max_stage) == SliceTo(cfg.stages, max_stage + 1)

\* run_code from max_stage on.
run_up_to(cfg, workdir, env, max_stage) ==
    run_outcome(cfg, max_stage,
        run_stages(workdir, env, stages_through(cfg, max_stage),
            [raised |-> FALSE, error |-> "none", stage_results |-> <<>>,
             launches |-> 0]))

\* max_stage = min(stage_index, len(cfg.stages) - 1)
max_stage_of(cfg, stage_index) == Min(stage_index, Len(cfg.stages) - 1)

\* run_code: materializes the workspace, runs the stages up to stage_index
\* and builds the response dict; raises ExecutionError when a target does.
run_code(q, user_files, stage_index, env) ==
    run_up_to(load_question_config(q), materialize_question(q, user_files),
              env, max_stage_of(load_question_config(q), stage_index))

\* No directory: the workdir of a call that was not made.
NoWorkdir == 0

\* tempfile.TemporaryDirectory(): the name of a directory that does not
\* exist yet; tmp maps the temp directories that exist to their files.
TemporaryDirectory(tmp) ==
    CHOOSE n \in 1..(Cardinality(DOMAIN tmp) + 1) : n \notin DOMAIN tmp

\* The temp directories once materialize_question has filled workdir.
materialized(tmp, workdir, files) ==
    [d \in DOMAIN tmp \cup {workdir} |->
        IF d = workdir THEN files ELSE tmp[d]]

\* TemporaryDirectory.cleanup
cleanup(tmp, workdir) == [d \in DOMAIN tmp \ {workdir} |-> tmp[d]]

\* Leaving the block with a removal placed after it, which a raise skips.
exit_returning(tmp, workdir, result) ==
    IF result.raised THEN tmp ELSE cleanup(tmp, workdir)

\* TemporaryDirectory.__exit__: leaving the with block of run_code, by its
\* return or by an exception, removes the directory.
exit(tmp, workdir, result) == cleanup(tmp, workdir)

\* The temp directories after the with block of a run_code call whose
\* outcome is call.result.
left_after(call, tmp, workdir) ==
    [call EXCEPT
       !.workdir = workdir,
       !.tmp = exit(materialized(tmp, workdir,
                        materialize_question(call.q, call.user_files)),
                    workdir, call.result)]

----------------------------------------------------------------------------
(* pair_programming_voice_bot/struggle_detector.py                         *)

\* No timestamp: None for last_edit_time and the level start times, -inf for
\* _last_signal_time.
NoTime == -1

\* backtrack_ratio = 0.2, in percent
BACKTRACK_RATIO_PERCENT == 20

\* Strings that are searched are sequences of characters.
IsSubstring(p, text) ==
    \E i \in 0..(Len(text) - Len(p)) : SubSeq(text, i + 1, i + Len(p)) = p

\* str.lower() on the letters the model's messages use
LowerChar(c) ==
    CASE c = "A" -> "a" [] c = "B" -> "b" [] c = "C" -> "c"
      [] c = "D" -> "d" [] c = "E" -> "e" [] c = "F" -> "f"
      [] c = "G" -> "g" [] c = "H" -> "h" [] c = "I" -> "i"
      [] c = "J" -> "j" [] c = "K" -> "k" [] c = "L" -> "l"
      [] c = "M" -> "m" [] c = "N" -> "n" [] c = "O" -> "o"
      [] c = "P" -> "p" [] c = "Q" -> "q" [] c = "R" -> "r"
      [] c = "S" -> "s" [] c = "T" -> "t" [] c = "U" -> "u"
      [] c = "V" -> "v" [] c = "W" -> "w" [] c = "X" -> "x"
      [] c = "Y" -> "y" [] c = "Z" -> "z"
      [] OTHER -> c

Lower(text) == [i \in 1..Len(text) |-> LowerChar(text[i])]

help_markers ==
    {<<"h", "e", "l", "p">>,
     <<"s", "t", "u", "c", "k">>,
     <<"h", "i", "n", "t">>,
     <<"w", "h", "a", "t", " ", "s", "h", "o", "u", "l", "d", " ", "i", " ",
       "d", "o">>,
     <<"n", "o", "t", " ", "s", "u", "r", "e">>}

\* StruggleDetector.__init__
StruggleDetector(idle_threshold_seconds, level_wall_seconds, nudge_cooldown) ==
    [idle_threshold_seconds |-> idle_threshold_seconds,
     level_wall_seconds |-> level_wall_seconds,
     backtrack_ratio |-> BACKTRACK_RATIO_PERCENT,
     nudge_cooldown |-> nudge_cooldown,
     last_edit_time |-> NoTime,
     run_results |-> <<>>,
     code_snapshots |-> <<>>,
     level_start_time |-> <<>>,
     last_signal_time |-> NoTime]

\* StruggleDetector() with the defaults of __init__
NewDetector == StruggleDetector(30, 300, 60)

NoSignal == [kind |-> "none", timestamp |-> NoTime]

StruggleSignal(kind, timestamp) == [kind |-> kind, timestamp |-> timestamp]

\* What a detector method leaves behind: the detector and the value returned.
Observed(d, signal) == [det |-> d, signal |-> signal]

\* _emit with a last-signal timestamp that is never written.
emit_without_stamp(d, kind, now) ==
    IF d.last_signal_time # NoTime
          /\ now - d.last_signal_time < d.nudge_cooldown
    THEN Observed(d, NoSignal)
    ELSE Observed(d, StruggleSignal(kind, now))

\* _emit with a suppressed signal restarting the cooldown window.
emit_extending(d, kind, now) ==
    IF d.last_signal_time # NoTime
          /\ now - d.last_signal_time < d.nudge_cooldown
    THEN Observed([d EXCEPT !.last_signal_time = now], NoSignal)
    ELSE Observed([d EXCEPT !.last_signal_time = now],
                  StruggleSignal(kind, now))

\* _emit
emit(d, kind, now) ==
    IF d.last_signal_time # NoTime
          /\ now - d.last_signal_time < d.nudge_cooldown
    THEN Observed(d, NoSignal)
    ELSE Observed([d EXCEPT !.last_signal_time = now],
                  StruggleSignal(kind, now))

\* int(len(previous) * (1 - self.backtrack_ratio))
backtrack_threshold(d, previous) ==
    (Len(previous) * (100 - d.backtrack_ratio)) \div 100

\* The last two statements of on_code_update.
code_recorded(o, code, ts) ==
    Observed([o.det EXCEPT !.code_snapshots = Append(@, code),
                           !.last_edit_time = ts],
             o.signal)

\* on_code_update
on_code_update(d, code, ts) ==
    code_recorded(
        IF d.code_snapshots # <<>>
              /\ Len(code) < backtrack_threshold(d,
                                 d.code_snapshots[Len(d.code_snapshots)])
        THEN emit(d, "backtrack", ts)
        ELSE Observed(d, NoSignal),
        code, ts)

\* hashlib.md5(stderr.encode("utf-8")).hexdigest()
Md5(text) == <<"md5", text>>

\* on_run_result comparing the exit codes of the last two runs alone.
run_checked_by_exit_code(d, ts) ==
    IF /\ Len(d.run_results) >= 2
       /\ d.run_results[Len(d.run_results)][1]
            = d.run_results[Len(d.run_results) - 1][1]
       /\ d.run_results[Len(d.run_results)][1] # 0
    THEN emit(d, "repeated_failure", ts)
    ELSE Observed(d, NoSignal)

\* on_run_result after the append
run_checked(d, ts) ==
    IF /\ Len(d.run_results) >= 2
       /\ SubSeq(d.run_results[Len(d.run_results)], 1, 2)
            = SubSeq(d.run_results[Len(d.run_results) - 1], 1, 2)
       /\ d.run_results[Len(d.run_results)][1] # 0
    THEN emit(d, "repeated_failure", ts)
    ELSE Observed(d, NoSignal)

\* on_run_result
on_run_result(d, exit_code, stderr, stage_index, ts) ==
    run_checked(
        [d EXCEPT !.run_results =
                      Append(@, <<exit_code, Md5(stderr), stage_index>>)],
        ts)

\* on_level_start
on_level_start(d, level, ts) ==
    [d EXCEPT !.level_start_time =
        [l \in DOMAIN d.level_start_time \cup {level} |->
            IF l = level THEN ts ELSE d.level_start_time[l]]]

\* on_user_message
on_user_message(d, message, ts) ==
    IF \E marker \in help_markers : IsSubstring(marker, Lower(message))
    THEN emit(d, "explicit_ask", ts)
    ELSE Observed(d, NoSignal)

\* check_idle
check_idle(d, tests_still_failing, ts) ==
    IF ~tests_still_failing \/ d.last_edit_time = NoTime
    THEN Observed(d, NoSignal)
    ELSE IF ts - d.last_edit_time >= d.idle_threshold_seconds
    THEN emit(d, "long_pause", ts)
    ELSE Observed(d, NoSignal)

\* check_level_wall firing only once the wall threshold is exceeded.
check_level_wall_late(d, current_level, ts) ==
    IF current_level \notin DOMAIN d.level_start_time
    THEN Observed(d, NoSignal)
    ELSE IF ts - d.level_start_time[current_level] > d.level_wall_seconds
    THEN emit(d, "level_wall", ts)
    ELSE Observed(d, NoSignal)

\* check_level_wall
check_level_wall(d, current_level, ts) ==
    IF current_level \notin DOMAIN d.level_start_time
    THEN Observed(d, NoSignal)
    ELSE IF ts - d.level_start_time[current_level] >= d.level_wall_seconds
    THEN emit(d, "level_wall", ts)
    ELSE Observed(d, NoSignal)

----------------------------------------------------------------------------
(* pair_programming_voice_bot/modes.py, notion_logger.py and agent.py       *)

BOT_DRIVES == "bot_drives"

HUMAN_DRIVES == "human_drives"

Modes == {BOT_DRIVES, HUMAN_DRIVES}

NoTransition == [previous |-> "none", current |-> "none", trigger |-> "none"]

ModeTransition(previous, current, trigger) ==
    [previous |-> previous, current |-> current, trigger |-> trigger]

\* Variant of set_mode: a transition is returned for every call.
set_mode_always(mode_state, mode, trigger) ==
    [mode |-> mode, transition |-> ModeTransition(mode_state, mode, trigger)]

\* ModeStateMachine.set_mode: the new mode and the transition returned
set_mode(mode_state, mode, trigger) ==
    IF mode = mode_state
    THEN [mode |-> mode_state, transition |-> NoTransition]
    ELSE [mode |-> mode,
          transition |-> ModeTransition(mode_state, mode, trigger)]

\* modes.py, BOT_SWITCH_PHRASES and HUMAN_SWITCH_PHRASES, in their order
BOT_SWITCH_PHRASES ==
    <<<<"t", "a", "k", "e", " ", "o", "v", "e", "r">>,
      <<"y", "o", "u", " ", "d", "r", "i", "v", "e">>,
      <<"b", "o", "t", " ", "d", "r", "i", "v", "e", "s">>,
      <<"y", "o", "u", "r", " ", "t", "u", "r", "n">>>>

HUMAN_SWITCH_PHRASES ==
    <<<<"l", "e", "t", " ", "m", "e", " ", "t", "r", "y">>,
      <<"i", "'", "l", "l", " ", "d", "r", "i", "v", "e">>,
      <<"m", "y", " ", "t", "u", "r", "n">>,
      <<"i", " ", "w", "i", "l", "l", " ", "d", "r", "i", "v", "e">>>>

\* text.replace("-", " ")
HyphensToSpaces(text) ==
    [i \in 1..Len(text) |-> IF text[i] = "-" THEN " " ELSE text[i]]

\* " ".join(text.split()): the words of text, one space between them
RECURSIVE JoinWords(_, _, _)
JoinWords(text, out, gap) ==
    IF text = <<>> THEN out
    ELSE IF Head(text) = " " THEN JoinWords(Tail(text), out, TRUE)
    ELSE JoinWords(Tail(text),
                   IF gap /\ out # <<>> THEN out \o <<" ", Head(text)>>
                   ELSE Append(out, Head(text)),
                   FALSE)

\* normalize_utterance
normalize_utterance(text) == JoinWords(HyphensToSpaces(Lower(text)), <<>>, FALSE)

\* any(phrase in normalized for phrase in phrases)
AnyPhraseIn(phrases, normalized) ==
    \E i \in DOMAIN phrases : IsSubstring(phrases[i], normalized)

NoMode == "none"

\* detect_mode_command: the bot phrases are tried first
detect_mode_command(utterance) ==
    IF AnyPhraseIn(BOT_SWITCH_PHRASES, normalize_utterance(utterance))
    THEN BOT_DRIVES
    ELSE IF AnyPhraseIn(HUMAN_SWITCH_PHRASES, normalize_utterance(utterance))
    THEN HUMAN_DRIVES
    ELSE NoMode

\* Variant of apply_voice_command: the mode is switched and no transition is
\* returned.
apply_voice_command_silent(mode_state, utterance) ==
    IF detect_mode_command(utterance) = NoMode
    THEN [mode |-> mode_state, transition |-> NoTransition]
    ELSE [mode |-> detect_mode_command(utterance),
          transition |-> NoTransition]

\* ModeStateMachine.apply_voice_command: the new mode and the transition
\* returned
apply_voice_command(mode_state, utterance) ==
    IF detect_mode_command(utterance) = NoMode
    THEN [mode |-> mode_state, transition |-> NoTransition]
    ELSE set_mode(mode_state, detect_mode_command(utterance), utterance)

\* SessionJournal()
NewJournal ==
    [mode_switches |-> <<>>, struggle_moments |-> <<>>,
     browserbase_lookups |-> <<>>, test_timeline |-> <<>>,
     final_code |-> NoneVal]

\* SessionJournal.log_mode_switch
log_mode_switch(journal, transition, timestamp) ==
    [journal EXCEPT !.mode_switches =
        Append(@, [timestamp |-> timestamp,
                   previous |-> transition.previous,
                   current |-> transition.current,
                   trigger |-> transition.trigger])]

\* SessionJournal.log_struggle
log_struggle(journal, signal) ==
    [journal EXCEPT !.struggle_moments =
        Append(@, [timestamp |-> signal.timestamp, kind |-> signal.kind])]

\* SessionJournal.log_test_result
log_test_result(journal, stage_index, visible_passed, visible_total) ==
    [journal EXCEPT !.test_timeline =
        Append(@, [stage_index |-> stage_index,
                   visible_passed |-> visible_passed,
                   visible_total |-> visible_total])]

\* PairProgrammingVoiceBot.__init__
NewBot ==
    [mode |-> BOT_DRIVES, det |-> NewDetector, run_history |-> <<>>,
     journal |-> NewJournal]

\* The mode set without a record of the switch in the journal.
mode_set_unlogged(bot, changed, now) ==
    IF changed.transition # NoTransition
    THEN [bot EXCEPT !.mode = changed.mode]
    ELSE bot

\* PairProgrammingVoiceBot.set_mode, from the transition on
mode_set(bot, changed, now) ==
    IF changed.transition # NoTransition
    THEN [bot EXCEPT !.mode = changed.mode,
                     !.journal = log_mode_switch(@, changed.transition, now)]
    ELSE bot

\* PairProgrammingVoiceBot.set_mode
bot_set_mode(bot, mode, trigger, now) ==
    mode_set(bot, set_mode(bot.mode, mode, trigger), now)

\* _respond_to_signal: the struggle is logged; the hint is returned.
respond_to_signal(bot, o) ==
    IF o.signal = NoSignal
    THEN [bot |-> [bot EXCEPT !.det = o.det], hint |-> "none"]
    ELSE [bot |-> [bot EXCEPT !.det = o.det,
                              !.journal = log_struggle(@, o.signal)],
          hint |-> o.signal.kind]

\* observe_run_result after the run is recorded
run_observed(bot, exit_code, stderr, stage_index, now) ==
    IF bot.mode # HUMAN_DRIVES THEN [bot |-> bot, hint |-> "none"]
    ELSE respond_to_signal(bot,
            on_run_result(bot.det, exit_code, stderr, stage_index, now))

\* PairProgrammingVoiceBot.observe_run_result
observe_run_result(bot, exit_code, stderr, stage_index, visible_passed, visible_total, now) ==
    run_observed(
        [bot EXCEPT
            !.run_history =
                Append(@, [exit_code |-> exit_code, stderr |-> stderr,
                           stage_index |-> stage_index,
                           visible_passed |-> visible_passed,
                           visible_total |-> visible_total]),
            !.journal = log_test_result(@, stage_index, visible_passed,
                                        visible_total)],
        exit_code, stderr, stage_index, now)

\* observe_code_update handing the turn to the candidate on an edit.
observe_code_update_switching(bot, code, now) ==
    respond_to_signal([bot EXCEPT !.mode = HUMAN_DRIVES],
                      on_code_update(bot.det, code, now))

\* PairProgrammingVoiceBot.observe_code_update
observe_code_update(bot, code, now) ==
    IF bot.mode # HUMAN_DRIVES THEN [bot |-> bot, hint |-> "none"]
    ELSE respond_to_signal(bot, on_code_update(bot.det, code, now))

\* periodic_check trying the level wall before the idle rule.
idle_checked_wall_first(bot, idle, current_level, now) ==
    IF check_level_wall(bot.det, current_level, now).signal # NoSignal
    THEN respond_to_signal(bot,
            check_level_wall(bot.det, current_level, now))
    ELSE respond_to_signal(bot, idle)

\* periodic_check from the return of check_idle on: the level wall is
\* checked only when check_idle returned None.
idle_checked(bot, idle, current_level, now) ==
    IF idle.signal # NoSignal THEN respond_to_signal(bot, idle)
    ELSE respond_to_signal(bot,
            check_level_wall(idle.det, current_level, now))

\* PairProgrammingVoiceBot.periodic_check
periodic_check(bot, current_level, tests_still_failing, now) ==
    IF bot.mode # HUMAN_DRIVES THEN [bot |-> bot, hint |-> "none"]
    ELSE idle_checked(bot, check_idle(bot.det, tests_still_failing, now),
                      current_level, now)

\* handle_voice_input listening for help in either mode.
voice_heard_any_mode(bot, changed, utterance, now) ==
    IF changed.transition # NoTransition
    THEN [bot |-> mode_set(bot, changed, now), hint |-> "none"]
    ELSE respond_to_signal(bot, on_user_message(bot.det, utterance, now))

\* handle_voice_input passing the utterance of a mode switch to the detector
\* as well.
voice_heard_also_asked(bot, changed, utterance, now) ==
    IF mode_set(bot, changed, now).mode = HUMAN_DRIVES
    THEN respond_to_signal(mode_set(bot, changed, now),
            on_user_message(bot.det, utterance, now))
    ELSE [bot |-> mode_set(bot, changed, now), hint |-> "none"]

\* handle_voice_input from the return of apply_voice_command on: the bot, and
\* the hint among the responses.
voice_heard(bot, changed, utterance, now) ==
    IF changed.transition # NoTransition
    THEN [bot |-> mode_set(bot, changed, now), hint |-> "none"]
    ELSE IF bot.mode = HUMAN_DRIVES
    THEN respond_to_signal(bot, on_user_message(bot.det, utterance, now))
    ELSE [bot |-> bot, hint |-> "none"]

\* PairProgrammingVoiceBot.handle_voice_input
handle_voice_input(bot, utterance, now) ==
    voice_heard(bot, apply_voice_command(bot.mode, utterance), utterance, now)

\* The acknowledgement of a mode switch among the responses of
\* handle_voice_input.
voice_ack(bot, utterance) ==
    IF apply_voice_command(bot.mode, utterance).transition = NoTransition
    THEN "none"
    ELSE IF apply_voice_command(bot.mode, utterance).mode = BOT_DRIVES
    THEN "taking over" ELSE "your turn"

----------------------------------------------------------------------------
(* pair_programming_voice_bot/policy.py: the capability table              *)

READ_FILE == "read_file"

READ_DESCRIPTION == "read_description"

LOOKUP_CONCEPT == "lookup_concept"

APPLY_PATCH == "apply_patch"

EXECUTE_TESTS == "execute_tests"

GET_CURRENT_CODE == "get_current_code"

GET_RUN_HISTORY == "get_run_history"

ToolAction ==
    {READ_FILE, READ_DESCRIPTION, LOOKUP_CONCEPT, APPLY_PATCH, EXECUTE_TESTS,
     GET_CURRENT_CODE, GET_RUN_HISTORY}

SHARED_ACTIONS == {READ_FILE, READ_DESCRIPTION, LOOKUP_CONCEPT}

BOT_ONLY_ACTIONS == {APPLY_PATCH, EXECUTE_TESTS}

HUMAN_ONLY_ACTIONS == {GET_CURRENT_CODE, GET_RUN_HISTORY}

\* ToolPolicy.allowed_actions
allowed_actions(mode) ==
    IF mode = BOT_DRIVES THEN SHARED_ACTIONS \cup BOT_ONLY_ACTIONS
    ELSE SHARED_ACTIONS \cup HUMAN_ONLY_ACTIONS

\* Variant of assert_allowed: only the actions of the bot are refused, in
\* HUMAN_DRIVES, and nothing is refused in BOT_DRIVES.
assert_allowed_bot_free(mode, action) ==
    IF mode = HUMAN_DRIVES /\ action \in BOT_ONLY_ACTIONS
    THEN "ToolPolicyViolation" ELSE "allowed"

\* ToolPolicy.assert_allowed: returns, or raises ToolPolicyViolation
assert_allowed(mode, action) ==
    IF action \notin allowed_actions(mode) THEN "ToolPolicyViolation"
    ELSE "allowed"

----------------------------------------------------------------------------
(* pair_programming_voice_bot/workspace.py: a QuestionWorkspace over a     *)
(* file system.  A path is the sequence of its components, "/" first when  *)
(* it is absolute; the file system maps the absolute paths of its files to *)
(* their text.                                                             *)

\* Path.resolve() on the components: "." is dropped, ".." steps up.
RECURSIVE ResolveComponents(_, _)
ResolveComponents(parts, out) ==
    IF parts = <<>> THEN out
    ELSE IF Head(parts) = "." THEN ResolveComponents(Tail(parts), out)
    ELSE IF Head(parts) = ".."
    THEN ResolveComponents(Tail(parts),
                           IF out = <<>> THEN out
                           ELSE SubSeq(out, 1, Len(out) - 1))
    ELSE ResolveComponents(Tail(parts), Append(out, Head(parts)))

\* (self.root / relative_path).resolve(): an absolute path replaces the root
JoinResolve(root, relative_path) ==
    IF relative_path # <<>> /\ Head(relative_path) = "/"
    THEN ResolveComponents(Tail(relative_path), <<>>)
    ELSE ResolveComponents(root \o relative_path, <<>>)

\* self.root in path.parents
IsParent(root, path) ==
    Len(root) < Len(path) /\ SubSeq(path, 1, Len(root)) = root

\* A value returned, or an exception raised, by a workspace or bot method.
Returned(value) == [outcome |-> "returned", value |-> value]

Failed(error) == [outcome |-> error, value |-> NoneVal]

\* A component that names a file or a directory.
IsName(part) == part \notin {".", ".."}

\* _resolve cleaning the path into the root instead of refusing it.
resolve_sanitizing(root, relative_path) ==
    Returned(root \o SelectSeq(relative_path, IsName))

\* QuestionWorkspace._resolve
resolve(root, relative_path) ==
    IF JoinResolve(root, relative_path) # root
          /\ ~IsParent(root, JoinResolve(root, relative_path))
    THEN Failed("WorkspaceError")
    ELSE Returned(JoinResolve(root, relative_path))

\* QuestionWorkspace.read_file once the path is resolved
read_resolved(fs, target) ==
    IF target.outcome # "returned" THEN target
    ELSE IF target.value \notin DOMAIN fs THEN Failed("WorkspaceError")
    ELSE Returned(fs[target.value])

\* QuestionWorkspace.read_file
read_file(fs, root, path) == read_resolved(fs, resolve(root, path))

\* QuestionWorkspace.read_description
read_description(fs, root, level) ==
    read_file(fs, root,
              IF level <= 1 THEN <<"desc.md">>
              ELSE <<"desc_level" \o ToString(level) \o ".md">>)

\* QuestionWorkspace.get_current_code
get_current_code(fs, root, file_path) == read_file(fs, root, file_path)

\* str.count: the occurrences of old in text that do not overlap
RECURSIVE CountOf(_, _)
CountOf(old, text) ==
    IF old = <<>> THEN Len(text) + 1
    ELSE IF Len(text) < Len(old) THEN 0
    ELSE IF SubSeq(text, 1, Len(old)) = old
    THEN 1 + CountOf(old, SubSeq(text, Len(old) + 1, Len(text)))
    ELSE CountOf(old, Tail(text))

\* str.replace(old, new, 1)
RECURSIVE ReplaceFirst(_, _, _)
ReplaceFirst(text, old, new) ==
    IF old = <<>> THEN new \o text
    ELSE IF Len(text) < Len(old) THEN text
    ELSE IF SubSeq(text, 1, Len(old)) = old
    THEN new \o SubSeq(text, Len(old) + 1, Len(text))
    ELSE <<Head(text)>> \o ReplaceFirst(Tail(text), old, new)

\* What a method of the workspace gives: the file system after it and what
\* it returned or raised.
Filed(fs, result) == [fs |-> fs, result |-> result]

\* QuestionWorkspace.apply_patch once the path is resolved
patch_resolved(fs, target, old_text, new_text) ==
    IF target.outcome # "returned" THEN Filed(fs, target)
    ELSE IF target.value \notin DOMAIN fs
    THEN Filed(fs, Failed("WorkspaceError"))
    ELSE IF CountOf(old_text, fs[target.value]) # 1
    THEN Filed(fs, Failed("WorkspaceError"))
    ELSE Filed([fs EXCEPT ![target.value] =
                    ReplaceFirst(@, old_text, new_text)],
               Returned("Patched"))

\* QuestionWorkspace.apply_patch
apply_patch(fs, root, file_path, old_text, new_text) ==
    patch_resolved(fs, resolve(root, file_path), old_text, new_text)

----------------------------------------------------------------------------
(* pair_programming_voice_bot/agent.py: the tool methods of the bot.  Each *)
(* gives the bot and the file system after the call, what the call         *)
(* returned or raised, and the gated operations it carried out.            *)

Acted(bot, fs, result, performed) ==
    [bot |-> bot, fs |-> fs, result |-> result, performed |-> performed]

\* The call was refused by ToolPolicy.assert_allowed.
Refused(bot, fs) == Acted(bot, fs, Failed("ToolPolicyViolation"), {})

\* The gated operation a call carried out, if it got that far.
Carried(action, result) ==
    IF result.outcome = "returned" THEN {action} ELSE {}

\* PairProgrammingVoiceBot.read_file
bot_read_file(bot, fs, root, path) ==
    IF assert_allowed(bot.mode, READ_FILE) # "allowed" THEN Refused(bot, fs)
    ELSE Acted(bot, fs, read_file(fs, root, path),
               Carried(READ_FILE, read_file(fs, root, path)))

\* PairProgrammingVoiceBot.read_description
bot_read_description(bot, fs, root, level) ==
    IF assert_allowed(bot.mode, READ_DESCRIPTION) # "allowed"
    THEN Refused(bot, fs)
    ELSE Acted(bot, fs, read_description(fs, root, level),
               Carried(READ_DESCRIPTION, read_description(fs, root, level)))

\* SessionJournal.log_lookup
log_lookup(journal, query, summary) ==
    [journal EXCEPT !.browserbase_lookups =
        Append(@, [query |-> query, summary |-> summary])]

\* ConceptLookup.lookup: the summary found for the query
lookup(query) == <<"summary", query>>

\* PairProgrammingVoiceBot.lookup_concept
bot_lookup_concept(bot, fs, query) ==
    IF assert_allowed(bot.mode, LOOKUP_CONCEPT) # "allowed"
    THEN Refused(bot, fs)
    ELSE Acted([bot EXCEPT !.journal = log_lookup(@, query, lookup(query))],
               fs, Returned(lookup(query)), {LOOKUP_CONCEPT})

\* apply_patch after the policy check
patched(bot, filed) ==
    Acted(bot, filed.fs, filed.result, Carried(APPLY_PATCH, filed.result))

\* Variant of bot_apply_patch: the patch is applied before the policy is
\* asked.
bot_apply_patch_first(bot, fs, root, file_path, old_text, new_text) ==
    IF assert_allowed(bot.mode, APPLY_PATCH) # "allowed"
    THEN Refused(bot, apply_patch(fs, root, file_path, old_text, new_text).fs)
    ELSE patched(bot, apply_patch(fs, root, file_path, old_text, new_text))

\* PairProgrammingVoiceBot.apply_patch
bot_apply_patch(bot, fs, root, file_path, old_text, new_text) ==
    IF assert_allowed(bot.mode, APPLY_PATCH) # "allowed" THEN Refused(bot, fs)
    ELSE patched(bot, apply_patch(fs, root, file_path, old_text, new_text))

\* PairProgrammingVoiceBot.execute_tests: backend is "none" when no client
\* is configured, else what the request to the backend does.
bot_execute_tests(bot, fs, backend) ==
    IF assert_allowed(bot.mode, EXECUTE_TESTS) # "allowed"
    THEN Refused(bot, fs)
    ELSE IF backend = "none"
    THEN Acted(bot, fs, Failed("BackendClientError"), {})
    ELSE IF backend = "unreachable"
    THEN Acted(bot, fs, Failed("BackendClientError"), {EXECUTE_TESTS})
    ELSE Acted(bot, fs, Returned("result"), {EXECUTE_TESTS})

\* PairProgrammingVoiceBot.get_current_code
bot_get_current_code(bot, fs, root, file_path) ==
    IF assert_allowed(bot.mode, GET_CURRENT_CODE) # "allowed"
    THEN Refused(bot, fs)
    ELSE Acted(bot, fs, get_current_code(fs, root, file_path),
               Carried(GET_CURRENT_CODE,
                       get_current_code(fs, root, file_path)))

\* PairProgrammingVoiceBot.get_run_history
bot_get_run_history(bot, fs) ==
    IF assert_allowed(bot.mode, GET_RUN_HISTORY) # "allowed"
    THEN Refused(bot, fs)
    ELSE Acted(bot, fs, Returned(bot.run_history), {GET_RUN_HISTORY})

\* save_session_journal once the current code is read
journal_saved(bot, fs, code) ==
    IF code.outcome # "returned" THEN Acted(bot, fs, code, {})
    ELSE Acted([bot EXCEPT !.journal.final_code = code.value], fs,
               Returned(NoneVal), {GET_CURRENT_CODE})

\* PairProgrammingVoiceBot.save_session_journal
save_session_journal(bot, fs, root) ==
    journal_saved(bot, fs, get_current_code(fs, root, <<"ruleengine.py">>))

\* backend/app.py, _get_llm_context: the gated reads it makes on the bot of
\* a voice session; a read that raises is passed over.
llm_context_reads(bot, fs, root) ==
    Carried(GET_CURRENT_CODE, get_current_code(fs, root, <<"ruleengine.py">>))
        \cup (IF bot.run_history # <<>> THEN {GET_RUN_HISTORY} ELSE {})

\* backend/app.py, bot_step, on the bot of a voice session
bot_step(bot, fs, root, llm) ==
    IF bot.mode # BOT_DRIVES THEN Acted(bot, fs, Failed("409"), {})
    ELSE IF ~llm THEN Acted(bot, fs, Failed("503"), {})
    ELSE Acted(bot, fs, Returned("narration"),
               llm_context_reads(bot, fs, root))

----------------------------------------------------------------------------
(* backend/sessions.py and backend/voice_sessions.py                        *)

ACTIVE == "active"

EXPIRED == "expired"

\* No duration_minutes in the request.
NoDuration == 0

\* Session(...): a new session
Session(session_id, question_name, started_at, duration_minutes) ==
    [session_id |-> session_id, question_name |-> question_name,
     started_at |-> started_at, duration_minutes |-> duration_minutes,
     status |-> ACTIVE, final_score |-> NoneVal, current_stage_index |-> 0]

\* Variant of remaining_seconds: the difference is not clamped at zero.
remaining_seconds_unclamped(session, now) ==
    session.started_at + session.duration_minutes * 60 - now

\* SessionStore.remaining_seconds (the clock counts seconds)
remaining_seconds(session, now) ==
    Max(0, session.started_at + session.duration_minutes * 60 - now)

\* The clamp of SessionStore.create without its lower bound.
clamped_duration_capped(duration_minutes) ==
    Min(MAX_DURATION_MINUTES,
        IF duration_minutes = NoDuration THEN DEFAULT_DURATION_MINUTES
        ELSE duration_minutes)

\* The clamp of SessionStore.create; "duration_minutes or DEFAULT" takes the
\* default for None and for 0.
clamped_duration(duration_minutes) ==
    Max(MIN_DURATION_MINUTES,
        Min(MAX_DURATION_MINUTES,
            IF duration_minutes = NoDuration THEN DEFAULT_DURATION_MINUTES
            ELSE duration_minutes))

\* SessionStore.create: the store with the new session under a fresh id
create(store, question_name, duration_minutes, now) ==
    Append(store, Session(Len(store) + 1, question_name, now,
                          clamped_duration(duration_minutes)))

\* Variant of get: a session is expired half a minute before its deadline.
get_eager(store, session_id, now) ==
    IF store[session_id].status = ACTIVE
          /\ remaining_seconds(store[session_id], now) <= 30
    THEN [store EXCEPT ![session_id].status = EXPIRED]
    ELSE store

\* SessionStore.get, for a session_id of the store: the lazy expiry
get(store, session_id, now) ==
    IF store[session_id].status = ACTIVE
          /\ remaining_seconds(store[session_id], now) <= 0
    THEN [store EXCEPT ![session_id].status = EXPIRED]
    ELSE store

\* SessionStore.mark_score, for a session_id of the store
mark_score(store, session_id, score, now) ==
    IF store[session_id].status # EXPIRED
          /\ remaining_seconds(store[session_id], now) <= 0
    THEN [store EXCEPT ![session_id].final_score = score,
                       ![session_id].status = EXPIRED]
    ELSE [store EXCEPT ![session_id].final_score = score]

\* Variant of advance_stage: the index is taken back by one.
advance_stage_back(store, session_id) ==
    [store EXCEPT ![session_id].current_stage_index = @ - 1]

\* SessionStore.advance_stage, for a session_id of the store
advance_stage(store, session_id) ==
    [store EXCEPT ![session_id].current_stage_index = @ + 1]

\* VoiceSessionStore.create: a new bot whose detector has level 1 started
voice_create(store, question_name, now) ==
    Append(store,
        [session_id |-> Len(store) + 1, question_name |-> question_name,
         bot |-> [NewBot EXCEPT !.det = on_level_start(@, 1, now)],
         conversation_history |-> <<>>])

----------------------------------------------------------------------------
(* Inputs: question folders, request files and sandbox behaviours          *)

VisibleFiles == {"ruleengine.py", "basicTests.py"}

QuestionRoot == {"ruleengine.py", "basicTests.py", "hidden_level2.py",
                 "hidden_level3.py", "question.json", "desc.md"}

Question(name, stages) ==
    [name |-> name, visible_files |-> VisibleFiles,
     entrypoint |-> "basicTests.py", stages |-> stages,
     default_duration_minutes |-> 60, root |-> QuestionRoot]

\* No declared stages: one stage is synthesized from the entrypoint and the
\* hidden files of the folder.
QSingle == Question("single", <<>>)

QTwo == Question("two",
    <<Stage("Level 1", <<"basicTests.py">>, <<"hidden_level2.py">>),
      Stage("Level 2", <<>>, <<"hidden_level3.py">>)>>)

QThree == Question("three",
    <<Stage("Level 1", <<"basicTests.py">>, <<>>),
      Stage("Level 2", <<>>, <<"hidden_level2.py">>),
      Stage("Level 3", <<>>, <<"hidden_level3.py">>)>>)

Questions == {QSingle, QTwo, QThree}

TestTargets == {"basicTests.py", "hidden_level2.py", "hidden_level3.py"}

\* Files of an execute request: the solution alone, or the solution together
\* with a file named like a hidden test.
UserFileSets ==
    {[f \in {"ruleengine.py"} |-> CandidateContent(f)],
     [f \in {"ruleengine.py", "hidden_level2.py"} |-> CandidateContent(f)]}

OPass1 == Completed(0, Text(1, FALSE, 0, 0, "OK"))

OPass2 == Completed(0, Text(2, FALSE, 0, 0, "OK"))

OFail == Completed(1, Text(2, TRUE, 1, 0, "AssertionError"))

OError == Completed(1, Text(1, TRUE, 0, 1, "Traceback"))

\* a summary that reports a failure, from a process that still exits 0
OFailExitZero == Completed(0, Text(1, TRUE, 1, 0, "AssertionError"))

\* a summary without failures, from a process that exits nonzero
OPassExitOne == Completed(1, Text(1, FALSE, 0, 0, "OK"))

\* no summary line at all
OQuiet == Completed(0, EmptyText)

OCrash == Completed(1, Text(-1, FALSE, 0, 0, "SyntaxError"))

OTimeout == Raised("timeout")

ONoDocker == Raised("environment_unavailable")

Outcomes == {OPass1, OPass2, OFail, OError, OFailExitZero, OPassExitOne,
             OQuiet, OCrash, OTimeout, ONoDocker}

\* Largest stage index a run is requested for (one past the last stage of
\* the largest question, so that the clamp is exercised).
MaxStageIndex == 3

----------------------------------------------------------------------------
(* Values of the variables a specification does not use                    *)

IdleParse == [output |-> <<>>, results |-> <<>>]

\* No call made on the detector yet.
IdleCall == [n |-> 0, op |-> "none", arg |-> <<>>, signal |-> NoSignal]

IdleAgg ==
    [q |-> QSingle, user_files |-> <<>>, stage_index |-> 0,
     env |-> <<>>, done |-> FALSE, tmp |-> <<>>, workdir |-> NoWorkdir,
     result |-> [raised |-> FALSE, error |-> "not called"]]

IdleMat ==
    [q |-> QSingle, override_files |-> <<>>, done |-> FALSE,
     workspace |-> <<>>]

NoResponse == [status |-> 0]

IdleMachine == [mode |-> BOT_DRIVES, calls |-> <<>>]

NoCall ==
    [method |-> "none", action |-> "none", mode |-> "none",
     outcome |-> "none", performed |-> {}]

IdleAgent == [bot |-> NewBot, fs |-> <<>>, last |-> NoCall, ncalls |-> 0]

----------------------------------------------------------------------------
(* backend/app.py: the request handlers.  Each takes the two stores, the   *)
(* record of the last run_code call and the request, and gives the stores, *)
(* the call record and the response after the request.  The activity log   *)
(* and the snapshots, which the service writes and never reads, are left   *)
(* out.                                                                    *)

ServiceQuestions == {QTwo, QThree}

QuestionNames == {q.name : q \in ServiceQuestions}

QuestionByName(name) == CHOOSE q \in ServiceQuestions : q.name = name

Response(endpoint, status, session_id) ==
    [endpoint |-> endpoint, status |-> status, session_id |-> session_id]

Served(S, V, A, R) ==
    [sessions |-> S, voice_sessions |-> V, agg |-> A, response |-> R]

\* payload.duration_minutes or cfg.default_duration_minutes
requested_duration(question_name, duration_minutes) ==
    IF duration_minutes # NoDuration THEN duration_minutes
    ELSE QuestionByName(question_name).default_duration_minutes

\* start_assessment
start_assessment(S, V, A, question_name, duration_minutes, now) ==
    IF question_name \notin QuestionNames
    THEN Served(S, V, A, Response("start", 404, 0))
    ELSE Served(create(S, question_name,
                       requested_duration(question_name, duration_minutes),
                       now),
                voice_create(V, question_name, now),
                A, Response("start", 200, Len(S) + 1))

\* get_assessment
get_assessment(S, V, A, session_id, now) ==
    IF session_id \notin DOMAIN S
    THEN Served(S, V, A, Response("get", 404, session_id))
    ELSE Served(get(S, session_id, now), V, A,
                Response("get", 200, session_id))

\* log_activity
log_activity(S, V, A, session_id, now) ==
    IF session_id \notin DOMAIN S
    THEN Served(S, V, A, Response("log", 404, session_id))
    ELSE Served(get(S, session_id, now), V, A,
                Response("log", 200, session_id))

\* set_voice_mode
set_voice_mode(S, V, A, session_id, mode, now) ==
    IF session_id \notin DOMAIN V
    THEN Served(S, V, A, Response("voice_mode", 404, session_id))
    ELSE IF mode \notin Modes
    THEN Served(S, V, A, Response("voice_mode", 400, session_id))
    ELSE Served(S,
                [V EXCEPT ![session_id].bot =
                              bot_set_mode(@, mode, "ui_toggle", now)],
                A, Response("voice_mode", 200, session_id))

\* The record of one run_code call.
RunCall(tmp, q, user_files, stage_index, env) ==
    left_after(
        [q |-> q, user_files |-> user_files, stage_index |-> stage_index,
         env |-> env, done |-> TRUE, tmp |-> tmp, workdir |-> NoWorkdir,
         result |-> run_code(q, user_files, stage_index, env)],
        tmp, TemporaryDirectory(tmp))

\* Variant of scored: the score of any passed stage is kept.
scored_any_stage(S, session_id, results, now) ==
    IF results.stage.current_passed
    THEN mark_score(S, session_id, results.final_score, now)
    ELSE S

\* execute_code, lines 223-225: the score of a passed final stage is kept.
scored(S, session_id, results, now) ==
    IF results.stage.current_index = results.stage.total_stages - 1
          /\ results.stage.current_passed
    THEN mark_score(S, session_id, results.final_score, now)
    ELSE S

\* Variant of advanced: every run that returns unlocks the next stage.
advanced_unconditionally(S, session_id, results, now) ==
    get(advance_stage(S, session_id), session_id, now)

\* execute_code, lines 226-228: the next stage is unlocked.
advanced(S, session_id, results, now) ==
    IF results.stage.unlocked_next
    THEN get(advance_stage(S, session_id), session_id, now)
    ELSE S

\* execute_code, lines 266-267: the next level is started in the detector.
level_started(bot, results, now) ==
    IF results.stage.unlocked_next
    THEN [bot EXCEPT !.det =
              on_level_start(@, results.stage.current_index + 1 + 1, now)]
    ELSE bot

\* execute_code, lines 253-267: the bot of the session observes the run.
run_reported(V, session_id, results, now) ==
    IF session_id \notin DOMAIN V THEN V
    ELSE [V EXCEPT ![session_id].bot =
            level_started(
                observe_run_result(@,
                    IF results.stage.current_passed THEN 0 ELSE 1,
                    results.visible.output,
                    results.stage.current_index,
                    results.visible.passed,
                    results.visible.total,
                    now).bot,
                results, now)]

\* execute_code once run_code is over, at time now.
execute_ran(S, V, session_id, call, now) ==
    IF call.result.raised
    THEN Served(S, V, call, Response("execute", 500, session_id))
    ELSE Served(advanced(scored(S, session_id, call.result, now),
                         session_id, call.result, now),
                run_reported(V, session_id, call.result, now),
                call, Response("execute", 200, session_id))

\* execute_code for a session that sessions.get returned: the run takes
\* elapsed seconds.
execute_found(S, V, A, session_id, question_name, files, env, now, elapsed) ==
    IF S[session_id].question_name # question_name
    THEN Served(S, V, A, Response("execute", 400, session_id))
    ELSE IF remaining_seconds(S[session_id], now) <= 0
    THEN Served([S EXCEPT ![session_id].status = EXPIRED], V, A,
                Response("execute", 410, session_id))
    ELSE execute_ran(S, V, session_id,
            RunCall(A.tmp, QuestionByName(question_name), files,
                    S[session_id].current_stage_index, env),
            now + elapsed)

\* execute_code, lines 204-212: the status of the refusal, or 0 when the
\* request goes on to run_code.
execute_refused(S, session_id, question_name, now) ==
    IF session_id \notin DOMAIN S THEN 404
    ELSE IF S[session_id].question_name # question_name THEN 400
    ELSE IF remaining_seconds(S[session_id], now) <= 0 THEN 410
    ELSE 0

\* execute_code
execute_code(S, V, A, session_id, question_name, files, env, now, elapsed) ==
    IF session_id \notin DOMAIN S
    THEN Served(S, V, A, Response("execute", 404, session_id))
    ELSE execute_found(get(S, session_id, now), V, A, session_id,
                       question_name, files, env, now, elapsed)

----------------------------------------------------------------------------
(* SpecAgg: run_code as a function of the question, the request files, the *)
(* requested stage index and the behaviour of the sandbox                  *)

InitAgg ==
    /\ clock = 0
    /\ det = NewDetector
    /\ signals = <<>>
    /\ mat = IdleMat
    /\ sessions = <<>>
    /\ voice_sessions = <<>>
    /\ response = NoResponse
    /\ pending = <<>>
    /\ parsed = IdleParse
    /\ called = IdleCall
    /\ machine = IdleMachine
    /\ agent = IdleAgent
    /\ \E q \in Questions, files \in UserFileSets,
          index \in 0..MaxStageIndex, env \in [TestTargets -> Outcomes] :
          agg = [q |-> q, user_files |-> files, stage_index |-> index,
                 env |-> env, done |-> FALSE,
                 tmp |-> <<>>, workdir |-> NoWorkdir,
                 result |-> [raised |-> FALSE, error |-> "not called"]]

AggRunCode ==
    /\ ~agg.done
    /\ agg' = RunCall(agg.tmp, agg.q, agg.user_files, agg.stage_index,
                       agg.env)
    /\ UNCHANGED <<clock, det, signals, mat, sessions, voice_sessions,
                   response,
                   machine, agent, pending, parsed, called>>

NextAgg == AggRunCode

SpecAgg == InitAgg /\ [][NextAgg]_vars

----------------------------------------------------------------------------
(* The aggregation of the call in agg, stated from the sandbox behaviour   *)

\* The requested index clamped into [0, stage_count - 1].
Clamped(index, stage_count) == Max(0, Min(index, stage_count - 1))

AggStages == load_question_config(agg.q).stages

AggClamped == Clamped(agg.stage_index, Len(AggStages))

\* Stage i, counted from 0.
AggStage(i) == AggStages[i + 1]

RECURSIVE SumPassed(_)
SumPassed(targets) ==
    IF targets = <<>> THEN 0
    ELSE parse_unittest_output(agg.env[Head(targets)].text)[1]
            + SumPassed(Tail(targets))

RECURSIVE SumTotal(_)
SumTotal(targets) ==
    IF targets = <<>> THEN 0
    ELSE parse_unittest_output(agg.env[Head(targets)].text)[2]
            + SumTotal(Tail(targets))

StageTargets(i) ==
    Range(AggStage(i).visible_tests) \cup Range(AggStage(i).hidden_tests)

\* Stage i passes under the sandbox behaviour agg.env.
StagePasses(i) ==
    /\ SumPassed(AggStage(i).visible_tests)
          = SumTotal(AggStage(i).visible_tests)
    /\ SumPassed(AggStage(i).hidden_tests)
          = SumTotal(AggStage(i).hidden_tests)
    /\ \A t \in StageTargets(i) : agg.env[t].returncode = 0

\* The targets of stages 0..i in the order the aggregation launches them.
RECURSIVE LaunchOrder(_)
LaunchOrder(i) ==
    IF i < 0 THEN <<>>
    ELSE LaunchOrder(i - 1) \o AggStage(i).visible_tests
            \o AggStage(i).hidden_tests

HardFailures ==
    SelectSeq(LaunchOrder(AggClamped), LAMBDA t : agg.env[t].raised)

\* Some target of the stages 0..clamped index fails hard.
AggHardFailure == HardFailures # <<>>

AggReturned == agg.done /\ ~agg.result.raised

\* C4 (as claimed): a hard failure of a target during an aggregation is
\* treated as a failed stage: the aggregation still returns a result.
C4_AsClaimed ==
    (agg.done /\ AggHardFailure) =>
        (~agg.result.raised /\ ~agg.result.stage.unlocked_next)

\* C4 (amended): a hard failure of a target aborts the aggregation: run_code
\* raises the ExecutionError of the first target that failed hard and
\* returns no result for any stage; without a hard failure it returns one.
C4_HardFailureAborts ==
    agg.done =>
        IF AggHardFailure
        THEN /\ agg.result.raised
             /\ agg.result.error = agg.env[Head(HardFailures)].error
        ELSE ~agg.result.raised

\* A timeout in the second stage of a run whose first stage passed.
C4_Witness ==
    /\ agg.done /\ agg.result.raised /\ agg.result.error = "timeout"
    /\ agg.q = QTwo /\ agg.stage_index = 1
    /\ StagePasses(0)
    /\ agg.env["hidden_level3.py"] = OTimeout

C6_StagePassed ==
    AggReturned =>
        LET stage == AggStage(AggClamped)
            r     == agg.result
        IN  /\ r.visible.passed = SumPassed(stage.visible_tests)
            /\ r.visible.total = SumTotal(stage.visible_tests)
            /\ r.hidden.passed = SumPassed(stage.hidden_tests)
            /\ r.hidden.total = SumTotal(stage.hidden_tests)
            /\ r.stage.current_passed
                 <=> /\ r.visible.passed = r.visible.total
                     /\ r.hidden.passed = r.hidden.total
                     /\ \A t \in StageTargets(AggClamped) :
                            agg.env[t].returncode = 0

\* All counts of the stage agree, one target exited nonzero, and the stage
\* did not pass.
C6_Witness ==
    /\ AggReturned
    /\ agg.q = QTwo /\ agg.stage_index = 0
    /\ agg.env["basicTests.py"] = OPass2
    /\ agg.env["hidden_level2.py"] = OPassExitOne
    /\ agg.result.visible.passed = 2 /\ agg.result.visible.total = 2
    /\ agg.result.hidden.passed = 1 /\ agg.result.hidden.total = 1
    /\ ~agg.result.stage.current_passed

NoSummary(t) ==
    /\ ~agg.env[t].raised
    /\ agg.env[t].text.ran < 0
    /\ ~agg.env[t].text.failed

\* The target, taken alone, passes: its counts agree and it exited with 0.
TargetPasses(t) ==
    /\ parse_unittest_output(agg.env[t].text)[1]
          = parse_unittest_output(agg.env[t].text)[2]
    /\ agg.env[t].returncode = 0

\* C34: a target whose output has no summary line is counted as total 0 and
\* passed 0 and is a normal result of run_suite, not an error; in a run that
\* returned, the last stage passes exactly when each of its targets other
\* than those without a summary line that exited with 0 passes, so the zero
\* counts of such a target do not make the stage fail.
C34_NoSummaryIsNoFailure ==
    /\ \A t \in TestTargets :
          NoSummary(t) =>
             /\ ~suite_of(agg.env[t]).raised
             /\ suite_of(agg.env[t]).passed = 0
             /\ suite_of(agg.env[t]).total = 0
    /\ AggReturned =>
          (agg.result.stage.current_passed
              <=> \A t \in StageTargets(AggClamped) :
                     (NoSummary(t) /\ agg.env[t].returncode = 0)
                        \/ TargetPasses(t))

\* The hidden target of the stage printed nothing and exited with 0, the
\* visible one passed, and the stage passed with a hidden total of 0.
C34_Witness ==
    /\ AggReturned
    /\ agg.q = QTwo /\ agg.stage_index = 0
    /\ agg.env["basicTests.py"] = OPass1
    /\ agg.env["hidden_level2.py"] = OQuiet
    /\ agg.result.hidden.total = 0 /\ agg.result.hidden.passed = 0
    /\ agg.result.stage.current_passed

\* The targets the run in agg launches as hidden ones and never as visible
\* ones.
HiddenRun ==
    UNION {Range(AggStage(i).hidden_tests) : i \in 0..AggClamped}
        \ UNION {Range(AggStage(i).visible_tests) : i \in 0..AggClamped}

\* What the hidden targets may print around their summary lines.
HiddenPrints == {"", "expected 42, got 41"}

\* The sandbox behaviour env with the hidden targets printing body, their
\* summary lines, exit codes and hard failures as they are.
Reprinted(env, body) ==
    [t \in DOMAIN env |->
        IF t \in HiddenRun /\ ~env[t].raised
        THEN Completed(env[t].returncode, [env[t].text EXCEPT !.body = body])
        ELSE env[t]]

\* The texts the visible targets of a stage print, the empty ones left out.
VisibleOutput(stage) ==
    SelectSeq([n \in DOMAIN stage.visible_tests |->
                  agg.env[stage.visible_tests[n]].text],
              LAMBDA o : o # EmptyText)

\* C39: the output text of an execution response is the output of the
\* visible targets of the last stage run, and two runs that differ only in
\* what the hidden targets print, with the same summary counts and exit
\* codes, end alike: they return identical responses, or raise the same
\* error.
C39_HiddenOutputWithheld ==
    agg.done =>
        /\ AggReturned =>
              agg.result.visible.output = VisibleOutput(AggStage(AggClamped))
        /\ \A body \in HiddenPrints :
              run_code(agg.q, agg.user_files, agg.stage_index,
                       Reprinted(agg.env, body)) = agg.result

\* A failing hidden target of the stage printed its assertion, and the
\* response carries the output of the visible target alone.
C39_Witness ==
    /\ AggReturned
    /\ agg.q = QTwo /\ agg.stage_index = 0
    /\ agg.env["basicTests.py"] = OPass1
    /\ agg.env["hidden_level2.py"] = OFail
    /\ agg.result.visible.output = <<OPass1.text>>
    /\ agg.result.hidden.total = 2 /\ agg.result.hidden.passed = 1

\* C20: after a run_code call has ended, by returning a result with all
\* tests passed or with some test failed, or by raising an error, the
\* directory its workspace was materialized in no longer exists.
C20_WorkdirRemoved ==
    agg.done =>
        /\ agg.workdir # NoWorkdir
        /\ agg.workdir \notin DOMAIN agg.tmp

\* A call that a timeout of a target ended by an exception, its directory
\* gone.
C20_Witness ==
    /\ agg.done /\ agg.result.raised /\ agg.result.error = "timeout"
    /\ agg.workdir # NoWorkdir
    /\ agg.workdir \notin DOMAIN agg.tmp

----------------------------------------------------------------------------
(* SpecAggAny: run_code called with any integer as stage index             *)

\* How far below zero a requested stage index goes (one more than the stage
\* count of the largest question).
MaxBelowZero == 4

\* Sandbox behaviours in which every target returns.
ReturningEnvs == [TestTargets -> {OPass1, OError}]

InitAggAny ==
    /\ clock = 0
    /\ det = NewDetector
    /\ signals = <<>>
    /\ mat = IdleMat
    /\ sessions = <<>>
    /\ voice_sessions = <<>>
    /\ response = NoResponse
    /\ pending = <<>>
    /\ parsed = IdleParse
    /\ called = IdleCall
    /\ machine = IdleMachine
    /\ agent = IdleAgent
    /\ \E q \in Questions, files \in UserFileSets,
          index \in (-MaxBelowZero)..MaxStageIndex, env \in ReturningEnvs :
          agg = [q |-> q, user_files |-> files, stage_index |-> index,
                 env |-> env, done |-> FALSE,
                 tmp |-> <<>>, workdir |-> NoWorkdir,
                 result |-> [raised |-> FALSE, error |-> "not called"]]

SpecAggAny == InitAggAny /\ [][NextAgg]_vars

\* The stages the loop of the call in agg runs, in the order it runs them.
AggStagesRun ==
    stages_through(load_question_config(agg.q),
                   max_stage_of(load_question_config(agg.q), agg.stage_index))

\* C19 (as claimed): for every integer requested, negative ones and ones past
\* the last stage included, the aggregation returns a current_index that is
\* the requested index clamped into [0, stage count - 1], and it runs
\* exactly the stages 0..current_index, each once, in ascending order.
C19_ClampedBothEnds ==
    agg.done =>
        /\ ~agg.result.raised
        /\ agg.result.stage.current_index \in 0..(Len(AggStages) - 1)
        /\ agg.result.stage.current_index = AggClamped
        /\ AggStagesRun = SubSeq(AggStages, 1, AggClamped + 1)

----------------------------------------------------------------------------
(* SpecMat: materialize_question as a function of the question folder, its *)
(* visible_files and the files of the request                               *)

MatVisibleNames == {"ruleengine.py", "basicTests.py", "hidden_level2.py"}

InitMat ==
    /\ clock = 0
    /\ det = NewDetector
    /\ signals = <<>>
    /\ agg = IdleAgg
    /\ sessions = <<>>
    /\ voice_sessions = <<>>
    /\ response = NoResponse
    /\ pending = <<>>
    /\ parsed = IdleParse
    /\ called = IdleCall
    /\ machine = IdleMachine
    /\ agent = IdleAgent
    /\ \E visible \in SUBSET MatVisibleNames, root \in SUBSET FileNames,
          sent \in SUBSET FileNames :
          mat = [q |-> [name |-> "ruleengine", visible_files |-> visible,
                        entrypoint |-> "basicTests.py", stages |-> <<>>,
                        root |-> root],
                 override_files |-> [f \in sent |-> CandidateContent(f)],
                 done |-> FALSE, workspace |-> <<>>]

MatMaterialize ==
    /\ ~mat.done
    /\ mat' = [mat EXCEPT
                 !.done = TRUE,
                 !.workspace = materialize_question(mat.q, mat.override_files)]
    /\ UNCHANGED <<clock, det, signals, agg, sessions, voice_sessions,
                   response,
                   machine, agent, pending, parsed, called>>

NextMat == MatMaterialize

SpecMat == InitMat /\ [][NextMat]_vars

\* C3: in the materialized workspace, the content of every file that is not
\* listed in the question's candidate-editable files is the stock content,
\* never the candidate's, even when the request has a file of that name; a
\* stock file other than question.json is always there.
C3_TrustBoundary ==
    mat.done =>
        /\ \A f \in DOMAIN mat.workspace :
              f \notin mat.q.visible_files
                  => /\ mat.workspace[f] = StockContent(f)
                     /\ f \in mat.q.root
        /\ \A f \in mat.q.root \ (mat.q.visible_files \cup {"question.json"}) :
              f \in DOMAIN mat.workspace

\* The request has a file named like a hidden test that is not editable, and
\* the workspace holds the stock copy of it.
C3_Witness ==
    /\ mat.done
    /\ "hidden_level2.py" \in DOMAIN mat.override_files
    /\ "hidden_level2.py" \notin mat.q.visible_files
    /\ "hidden_level2.py" \in DOMAIN mat.workspace
    /\ mat.workspace["hidden_level2.py"] = StockContent("hidden_level2.py")
    /\ "ruleengine.py" \in mat.q.visible_files
    /\ "ruleengine.py" \in DOMAIN mat.override_files
    /\ mat.workspace["ruleengine.py"] = CandidateContent("ruleengine.py")

----------------------------------------------------------------------------
(* SpecDet: one StruggleDetector driven by every kind of event, with the   *)
(* time of each call read from the clock                                   *)

\* Bounds of the detector runs.
MaxTime == 3

MaxCooldown == 2

IdleThreshold == 1

LevelWall == 2

MaxHistory == 2

MaxSignals == 2

\* Calls made on the detector.
MaxDetCalls == 4

\* Code of n characters.
Code(n) == [i \in 1..n |-> "x"]

CodeLengths == {1, 7, 9}

DetRuns == {<<0, "OK">>, <<1, "AssertionError">>, <<1, "TypeError">>}

DetLevels == {1}

DetMessages ==
    {<<"H", "e", "l", "p", "!">>,
     <<"n", "o", "t", " ", "s", "u", "r", "e">>,
     <<"o", "k">>}

InitDet ==
    /\ clock = 0
    /\ \E cooldown \in 0..MaxCooldown :
          det = StruggleDetector(IdleThreshold, LevelWall, cooldown)
    /\ signals = <<>>
    /\ agg = IdleAgg
    /\ mat = IdleMat
    /\ sessions = <<>>
    /\ voice_sessions = <<>>
    /\ response = NoResponse
    /\ pending = <<>>
    /\ parsed = IdleParse
    /\ called = IdleCall
    /\ machine = IdleMachine
    /\ agent = IdleAgent

DetFrame == UNCHANGED <<agg, mat, sessions, voice_sessions, response,
                   machine, agent, pending, parsed>>

\* The call op(arg) counted and recorded with the signal it returned.
DetCalled(op, arg, signal) ==
    /\ called.n < MaxDetCalls
    /\ called' = [n |-> called.n + 1, op |-> op, arg |-> arg,
                  signal |-> signal]

\* The detector after the call op(arg), and the signal it returned (if any)
\* recorded.
DetReturn(op, arg, o) ==
    /\ Len(signals) < MaxSignals
    /\ DetCalled(op, arg, o.signal)
    /\ det' = o.det
    /\ signals' = IF o.signal # NoSignal THEN Append(signals, o.signal)
                  ELSE signals
    /\ UNCHANGED clock
    /\ DetFrame

DetTick ==
    /\ clock < MaxTime
    /\ clock' = clock + 1
    /\ UNCHANGED <<det, signals, called>>
    /\ DetFrame

DetCodeUpdate ==
    /\ Len(det.code_snapshots) < MaxHistory
    /\ \E n \in CodeLengths :
          DetReturn("on_code_update", Code(n),
                    on_code_update(det, Code(n), clock))

DetRunResult ==
    /\ Len(det.run_results) < MaxHistory
    /\ \E run \in DetRuns :
          DetReturn("on_run_result", run,
                    on_run_result(det, run[1], run[2], 0, clock))

DetLevelStart ==
    \E level \in DetLevels :
        /\ DetCalled("on_level_start", level, NoSignal)
        /\ det' = on_level_start(det, level, clock)
        /\ UNCHANGED <<clock, signals>>
        /\ DetFrame

DetUserMessage ==
    \E message \in DetMessages :
        DetReturn("on_user_message", message,
                  on_user_message(det, message, clock))

DetCheckIdle ==
    \E failing \in BOOLEAN :
        DetReturn("check_idle", failing, check_idle(det, failing, clock))

DetCheckLevelWall ==
    \E level \in DetLevels :
        DetReturn("check_level_wall", level,
                  check_level_wall(det, level, clock))

NextDet ==
    \/ DetTick
    \/ DetCodeUpdate
    \/ DetRunResult
    \/ DetLevelStart
    \/ DetUserMessage
    \/ DetCheckIdle
    \/ DetCheckLevelWall

SpecDet == InitDet /\ [][NextDet]_vars

\* C1: the cooldown is shared by all signal kinds: any two signals the
\* detector emitted have timestamps at least nudge_cooldown apart, so two
\* qualifying events less than nudge_cooldown apart give at most one signal.
C1_SharedCooldown ==
    \A i, j \in 1..Len(signals) :
        i < j => signals[j].timestamp - signals[i].timestamp
                    >= det.nudge_cooldown

\* Two signals of different kinds were emitted under a positive cooldown.
C1_Witness ==
    /\ det.nudge_cooldown = 2
    /\ Len(signals) >= 2
    /\ signals[1].kind = "backtrack"
    /\ signals[2].kind = "repeated_failure"
    /\ signals[2].timestamp = signals[1].timestamp + 2

\* The step is a call of op on the detector.
DetCall(op) == called'.n = called.n + 1 /\ called'.op = op

\* The cooldown has elapsed at the time of the call.
CooldownElapsed ==
    det.last_signal_time = NoTime
        \/ clock - det.last_signal_time >= det.nudge_cooldown

\* The call of the step returned a signal of this kind, stamped now.
Signalled(kind) == called'.signal = StruggleSignal(kind, clock)

\* code is shorter than (1 - backtrack_ratio) x the last snapshot.
BelowRatio(snapshots, code) ==
    /\ snapshots # <<>>
    /\ 100 * Len(code)
          < (100 - BACKTRACK_RATIO_PERCENT) * Len(snapshots[Len(snapshots)])

\* C23 (as claimed): on_code_update qualifies as a backtrack exactly when a
\* previous snapshot exists and the new length is below (1 - backtrack_ratio)
\* x the previous length, whether or not that product is an integer: then,
\* the cooldown elapsed, it returns backtrack, and otherwise it returns
\* nothing; the first update never emits.
C23_BacktrackRatio ==
    [][DetCall("on_code_update") =>
         /\ (BelowRatio(det.code_snapshots, called'.arg) /\ CooldownElapsed)
               => Signalled("backtrack")
         /\ ~BelowRatio(det.code_snapshots, called'.arg)
               => called'.signal = NoSignal
         /\ det.code_snapshots = <<>> => called'.signal = NoSignal]_vars

\* The run observed in the step repeats the failure observed just before it.
RepeatsFailure(runs, run) ==
    /\ runs # <<>>
    /\ runs[Len(runs)][1] = run[1]
    /\ runs[Len(runs)][2] = Md5(run[2])
    /\ run[1] # 0

\* C24: on_run_result qualifies as a repeated_failure exactly when the run
\* just observed and the one observed immediately before it have the same
\* exit code and the same output and that exit code is nonzero: then, the
\* cooldown elapsed, it returns repeated_failure, and otherwise it returns
\* nothing; the first of two identical failing runs never emits.
C24_RepeatedFailure ==
    [][DetCall("on_run_result") =>
         /\ (RepeatsFailure(det.run_results, called'.arg) /\ CooldownElapsed)
               <=> Signalled("repeated_failure")
         /\ ~Signalled("repeated_failure") => called'.signal = NoSignal
         /\ det.run_results = <<>> => called'.signal = NoSignal]_vars

\* The second of two identical failing runs has returned the signal, after
\* a first one that returned nothing.
C24_Witness ==
    /\ called.op = "on_run_result"
    /\ called.signal.kind = "repeated_failure"
    /\ Len(det.run_results) = 2
    /\ det.run_results[1] = det.run_results[2]
    /\ Len(signals) = 1

\* The event of the call op(arg), made on the detector as it is now,
\* qualifies for a signal of this kind.
Qualifies(op, arg, kind) ==
    CASE op = "on_code_update" ->
            kind = "backtrack" /\ BelowRatio(det.code_snapshots, arg)
      [] op = "on_run_result" ->
            kind = "repeated_failure" /\ RepeatsFailure(det.run_results, arg)
      [] op = "on_user_message" ->
            /\ kind = "explicit_ask"
            /\ \E marker \in help_markers : IsSubstring(marker, Lower(arg))
      [] op = "check_idle" ->
            /\ kind = "long_pause"
            /\ arg
            /\ det.last_edit_time # NoTime
            /\ clock - det.last_edit_time >= det.idle_threshold_seconds
      [] op = "check_level_wall" ->
            /\ kind = "level_wall"
            /\ arg \in DOMAIN det.level_start_time
            /\ clock - det.level_start_time[arg] >= det.level_wall_seconds
      [] OTHER -> FALSE

\* C25: a signal that would fire inside the cooldown window is dropped and
\* not queued.  A call that returns no signal leaves the last-signal
\* timestamp as it was; a signal is returned only by a call whose own event
\* qualifies, made when the cooldown has elapsed, and it is stamped with the
\* time of that call.
C25_SuppressedNotQueued ==
    [][IF called'.n = called.n + 1
       THEN IF called'.signal = NoSignal
            THEN /\ det'.last_signal_time = det.last_signal_time
                 /\ signals' = signals
            ELSE /\ CooldownElapsed
                 /\ Qualifies(called'.op, called'.arg, called'.signal.kind)
                 /\ called'.signal.timestamp = clock
                 /\ det'.last_signal_time = clock
                 /\ signals' = Append(signals, called'.signal)
       ELSE /\ det'.last_signal_time = det.last_signal_time
            /\ signals' = signals]_vars

\* A backtrack at time 1 fell into the window of the signal of time 0 and
\* was dropped; the next signal is the long_pause of a check made at time 2.
C25_Witness ==
    /\ det.nudge_cooldown = 2
    /\ det.code_snapshots = <<Code(9), Code(1)>>
    /\ det.last_edit_time = 1
    /\ Len(signals) = 2
    /\ signals[1].timestamp = 0
    /\ signals[2] = StruggleSignal("long_pause", 2)

\* C27: long_pause is returned only by a check_idle made with tests still
\* failing, after an edit, when the time since the last edit is at least
\* the idle threshold; level_wall only by a check_level_wall of a level
\* whose start is recorded, when the time since it is at least the wall
\* threshold; and when the condition holds and the cooldown has elapsed the
\* signal is returned.
C27_IdleAndWall ==
    [][/\ DetCall("check_idle") =>
            /\ called'.signal # NoSignal => Signalled("long_pause")
            /\ Signalled("long_pause")
                 <=> (Qualifies("check_idle", called'.arg, "long_pause")
                        /\ CooldownElapsed)
       /\ DetCall("check_level_wall") =>
            /\ called'.signal # NoSignal => Signalled("level_wall")
            /\ Signalled("level_wall")
                 <=> (Qualifies("check_level_wall", called'.arg,
                                "level_wall")
                        /\ CooldownElapsed)
       /\ (called'.n = called.n + 1
             /\ called'.signal.kind \in {"long_pause", "level_wall"})
            => called'.op = IF called'.signal.kind = "long_pause"
                            THEN "check_idle" ELSE "check_level_wall"]_vars

\* A check made exactly when the wall threshold of the level is reached has
\* returned level_wall.
C27_Witness ==
    /\ called.op = "check_level_wall"
    /\ called.signal = StruggleSignal("level_wall", clock)
    /\ clock - det.level_start_time[called.arg] = det.level_wall_seconds

----------------------------------------------------------------------------
(* Spec: the service, one request at a time                                *)

\* Bounds of the service runs.
MaxSessions == 1

MaxClock == 120

TickSeconds == 30

MaxRuns == 3

MaxSwitches == 1

RequestedDurations == {NoDuration, 1}

\* What the test targets do in a run of the service: each passes or fails,
\* or the first passes and the container of every other one times out.
ServiceEnvs ==
    [TestTargets -> {OPass1, OError}]
        \cup {[t \in TestTargets |->
                  IF t = "basicTests.py" THEN OPass1 ELSE OTimeout]}

ServiceFiles ==
    [f \in {"ruleengine.py", "hidden_level2.py"} |-> CandidateContent(f)]

Init ==
    /\ clock = 0
    /\ det = NewDetector
    /\ signals = <<>>
    /\ agg = IdleAgg
    /\ mat = IdleMat
    /\ sessions = <<>>
    /\ voice_sessions = <<>>
    /\ response = NoResponse
    /\ pending = <<>>
    /\ parsed = IdleParse
    /\ called = IdleCall
    /\ machine = IdleMachine
    /\ agent = IdleAgent

\* The stores, the call record and the response after a request.
Apply(r) ==
    /\ sessions' = r.sessions
    /\ voice_sessions' = r.voice_sessions
    /\ agg' = r.agg
    /\ response' = r.response
    /\ UNCHANGED <<det, signals, mat, machine, agent, parsed, called>>

\* The state after a request served from start to end in one step.
Serve(r) == Apply(r) /\ UNCHANGED pending

Tick ==
    /\ clock + TickSeconds <= MaxClock
    /\ clock' = clock + TickSeconds
    /\ UNCHANGED <<det, signals, agg, mat, sessions, voice_sessions,
                   response,
                   machine, agent, pending, parsed, called>>

StartAssessment ==
    /\ Len(sessions) < MaxSessions
    /\ \E name \in QuestionNames \cup {"missing"},
          duration \in RequestedDurations :
          Serve(start_assessment(sessions, voice_sessions, agg, name,
                                 duration, clock))
    /\ UNCHANGED clock

GetAssessment ==
    /\ \E sid \in 1..MaxSessions :
          Serve(get_assessment(sessions, voice_sessions, agg, sid, clock))
    /\ UNCHANGED clock

LogActivity ==
    /\ \E sid \in 1..MaxSessions :
          Serve(log_activity(sessions, voice_sessions, agg, sid, clock))
    /\ UNCHANGED clock

SetVoiceMode ==
    /\ \E sid \in 1..MaxSessions, mode \in Modes \cup {"invalid"} :
          /\ sid \in DOMAIN voice_sessions =>
                Len(voice_sessions[sid].bot.journal.mode_switches)
                    < MaxSwitches
          /\ Serve(set_voice_mode(sessions, voice_sessions, agg, sid, mode,
                                  clock))
    /\ UNCHANGED clock

ExecuteCode ==
    \E sid \in 1..MaxSessions, name \in QuestionNames,
       env \in ServiceEnvs,
       elapsed \in {0, TickSeconds} :
        /\ clock + elapsed <= MaxClock
        /\ sid \in DOMAIN voice_sessions =>
              Len(voice_sessions[sid].bot.run_history) < MaxRuns
        /\ Serve(execute_code(sessions, voice_sessions, agg, sid, name,
                              ServiceFiles, env, clock, elapsed))
        \* the clock moves while the tests run, and only then
        /\ clock' = IF response'.status \in {200, 500} THEN clock + elapsed
                    ELSE clock

Next ==
    \/ Tick
    \/ StartAssessment
    \/ GetAssessment
    \/ LogActivity
    \/ SetVoiceMode
    \/ ExecuteCode

Spec == Init /\ [][Next]_vars

----------------------------------------------------------------------------
(* The session claims, stated over the steps of Spec                       *)

StageCount(sid) ==
    Len(load_question_config(QuestionByName(sessions[sid].question_name)).stages)

StageIndex(sid) == sessions[sid].current_stage_index

RunHistory(sid) == voice_sessions[sid].bot.run_history

\* Every stage 0..k passes under the sandbox behaviour of the call in agg.
AllStagesPass(k) == \A i \in 0..k : StagePasses(i)

\* The step served an execute request of session sid with a run at index k.
ExecuteRanAt(sid, k) ==
    /\ response' = Response("execute", 200, sid)
    /\ Len(RunHistory(sid)') = Len(RunHistory(sid)) + 1
    /\ agg'.done
    /\ agg'.q.name = sessions[sid].question_name
    /\ agg'.stage_index = k

\* C2: a stage is a gate.  Over the serialized requests of the service, the
\* current_stage_index of a session changes only from k to k+1 and only in
\* an execute of that session whose run was at index k and in which every
\* stage 0..k passed; such a run at an index below the last one does advance
\* it; and the index always stays within [0, stage_count - 1].
C2_StageGate ==
    [][\A sid \in DOMAIN sessions :
         \A k \in {StageIndex(sid)}, n \in {StageCount(sid)} :
            /\ StageIndex(sid)' \in {k, k + 1}
            /\ StageIndex(sid)' = k + 1 =>
                  (ExecuteRanAt(sid, k) /\ AllStagesPass(k)')
            /\ (ExecuteRanAt(sid, k) /\ AllStagesPass(k)' /\ k < n - 1) =>
                  StageIndex(sid)' = k + 1
            /\ StageIndex(sid)' \in 0..(n - 1)]_vars

\* A session of the three-stage question has been advanced twice and stands
\* at its last stage after an execute.
C2_Witness ==
    \E sid \in DOMAIN sessions :
        /\ sessions[sid].question_name = "three"
        /\ StageIndex(sid) = 2
        /\ Len(RunHistory(sid)) = 2
        /\ response = Response("execute", 200, sid)

\* The step served a request that reads session sid.
ReadOf(sid) ==
    /\ response'.session_id = sid
    /\ response'.endpoint \in {"get", "log", "execute"}
    /\ response'.status \in {200, 400, 410}

\* C8: the status of a session changes only from active to expired, and an
\* expired session stays expired; a session is created active; the change is
\* made by a request that reads the session, at a time when its remaining
\* time is zero, and never by the passing of time alone.
C8_StatusOnce ==
    [][/\ \A sid \in DOMAIN sessions :
            /\ sessions[sid].status = EXPIRED =>
                  sessions'[sid].status = EXPIRED
            /\ sessions'[sid].status # sessions[sid].status =>
                  /\ sessions[sid].status = ACTIVE
                  /\ sessions'[sid].status = EXPIRED
                  /\ remaining_seconds(sessions'[sid], clock') = 0
                  /\ ReadOf(sid)
       /\ \A sid \in DOMAIN sessions' \ DOMAIN sessions :
            sessions'[sid].status = ACTIVE
       /\ response' = response /\ agg' = agg
             /\ voice_sessions' = voice_sessions /\ clock' # clock
             => sessions' = sessions]_vars

\* A get has found the deadline of a session passed and expired it.
C8_Witness ==
    \E sid \in DOMAIN sessions :
        /\ sessions[sid].status = EXPIRED
        /\ remaining_seconds(sessions[sid], clock) = 0
        /\ response = Response("get", 200, sid)

\* C9: the current_stage_index of a session never decreases, whatever the
\* request served, and no session leaves the store.
C9_IndexMonotone ==
    [][/\ DOMAIN sessions \subseteq DOMAIN sessions'
       /\ \A sid \in DOMAIN sessions :
            StageIndex(sid)' >= StageIndex(sid)]_vars

\* A session that was advanced to index 1 has since had a run at index 1
\* whose stage failed, and is still at index 1.
C9_Witness ==
    \E sid \in DOMAIN sessions :
        /\ StageIndex(sid) = 1
        /\ response = Response("execute", 200, sid)
        /\ agg.done /\ agg.stage_index = 1
        /\ ~StagePasses(1)

\* Some recorded run of session sid was at the final stage index and its
\* final stage passed.
FinalStagePassedRun(sid) ==
    \E n \in DOMAIN RunHistory(sid) :
        /\ RunHistory(sid)[n].stage_index = StageCount(sid) - 1
        /\ RunHistory(sid)[n].exit_code = 0

\* C10: final_score is set only by an execute of the session whose run was
\* at the final stage index and whose final stage passed, and a session that
\* has a final_score has had such a run.
C10_ScoreOnlyAtFinal ==
    [][/\ \A sid \in DOMAIN sessions' \ DOMAIN sessions :
            sessions'[sid].final_score = NoneVal
       /\ \A sid \in DOMAIN sessions :
            \A last \in {StageCount(sid) - 1} :
               /\ sessions'[sid].final_score # sessions[sid].final_score =>
                     (ExecuteRanAt(sid, last) /\ StagePasses(last)')
               /\ sessions'[sid].final_score # NoneVal =>
                     FinalStagePassedRun(sid)']_vars

\* A session has a final_score below 100: its final stage passed in a run in
\* which an earlier stage failed.
C10_Witness ==
    \E sid \in DOMAIN sessions :
        /\ sessions[sid].final_score # NoneVal
        /\ sessions[sid].final_score # Score(1, 1)
        /\ FinalStagePassedRun(sid)

\* C11 (as claimed): once the final_score of a session is set, no later
\* request changes its value.
C11_SetOnce ==
    [][\A sid \in DOMAIN sessions :
         sessions[sid].final_score # NoneVal =>
            sessions'[sid].final_score = sessions[sid].final_score]_vars

\* Seconds since session sid was started.
Elapsed(sid) == clock - sessions[sid].started_at

\* C12: remaining_seconds of a session is max(0, duration - elapsed) in whole
\* seconds, it never increases from one step to the next, and a session
\* whose status is expired has remaining_seconds 0.
C12_Remaining ==
    [][\A sid \in DOMAIN sessions' :
         /\ remaining_seconds(sessions'[sid], clock')
               = Max(0, sessions'[sid].duration_minutes * 60 - Elapsed(sid)')
         /\ sid \in DOMAIN sessions =>
               remaining_seconds(sessions'[sid], clock')
                  <= remaining_seconds(sessions[sid], clock)
         /\ sessions'[sid].status = EXPIRED =>
               remaining_seconds(sessions'[sid], clock') = 0]_vars

\* The clock has passed the deadline of a session that no request has read
\* since: its remaining_seconds is 0 and its status is still active.
C12_Witness ==
    \E sid \in DOMAIN sessions :
        /\ Elapsed(sid) > sessions[sid].duration_minutes * 60
        /\ remaining_seconds(sessions[sid], clock) = 0
        /\ sessions[sid].status = ACTIVE

\* C36 (as claimed): once the remaining time of a session has reached 0, its
\* current_stage_index and final_score are not modified again: a step that
\* ends at a time when the remaining time is 0, an execute request that began
\* before the deadline included, leaves both as they were.
C36_FrozenAfterDeadline ==
    [][\A sid \in DOMAIN sessions :
         remaining_seconds(sessions[sid], clock') = 0 =>
            /\ sessions'[sid].current_stage_index
                  = sessions[sid].current_stage_index
            /\ sessions'[sid].final_score = sessions[sid].final_score]_vars

\* The number of launches of the call in agg up to and including the first
\* one that fails hard, every target of the launch order being launched once.
LaunchesToFailure ==
    CHOOSE i \in DOMAIN LaunchOrder(AggClamped) :
        /\ agg.env[LaunchOrder(AggClamped)[i]].raised
        /\ \A j \in 1..(i - 1) : ~agg.env[LaunchOrder(AggClamped)[j]].raised

\* C22: when the launch of a test target fails, run_code raises an
\* ExecutionError and returns no result, partial or not; no target is
\* launched after the failing one and none twice; and the execute request
\* is answered 500 with the current_stage_index and final_score of the
\* session and the struggle detector of its bot as they were.
C22_LaunchFailure ==
    [][\A sid \in DOMAIN sessions :
         response' = Response("execute", 500, sid) =>
            /\ agg'.done /\ agg'.result.raised
            /\ DOMAIN agg'.result = {"raised", "error", "launches"}
            /\ AggHardFailure'
            /\ agg'.result.launches = LaunchesToFailure'
            /\ sessions'[sid].current_stage_index
                  = sessions[sid].current_stage_index
            /\ sessions'[sid].final_score = sessions[sid].final_score
            /\ sid \in DOMAIN voice_sessions =>
                  voice_sessions'[sid].bot.det = voice_sessions[sid].bot.det
      ]_vars

\* An execute whose first target passed and whose second timed out, on a
\* session that had a run observed before.
C22_Witness ==
    \E sid \in DOMAIN sessions :
        /\ response = Response("execute", 500, sid)
        /\ agg.result.raised /\ agg.result.error = "timeout"
        /\ agg.result.launches = 2
        /\ Len(RunHistory(sid)) >= 1

----------------------------------------------------------------------------
(* SpecMode: a ModeStateMachine under voice commands and set_mode calls    *)

\* Calls recorded on the machine.
MaxCalls == 3

UTakeOver ==
    <<"t", "a", "k", "e", " ", "o", "v", "e", "r">>

UYourTurn ==
    <<"Y", "o", "u", "r", " ", "t", "u", "r", "n", "!">>

ULetMeTry ==
    <<"l", "e", "t", " ", "m", "e", " ", "t", "r", "y">>

UMyTurn ==
    <<"M", "y", "-", "T", "u", "r", "n">>

UKeepGoing ==
    <<"k", "e", "e", "p", " ", " ", "g", "o", "i", "n", "g">>

UBoth ==
    <<"t", "a", "k", "e", " ", "o", "v", "e", "r", ",", " ", "t", "h", "e",
      "n", " ", "l", "e", "t", " ", "m", "e", " ", "t", "r", "y">>

ModeUtterances == {UTakeOver, UYourTurn, ULetMeTry, UMyTurn, UKeepGoing, UBoth}

ModeTriggers == {"manual", "ui_toggle"}

InitMode ==
    /\ clock = 0
    /\ det = NewDetector
    /\ signals = <<>>
    /\ agg = IdleAgg
    /\ mat = IdleMat
    /\ sessions = <<>>
    /\ voice_sessions = <<>>
    /\ response = NoResponse
    /\ pending = <<>>
    /\ parsed = IdleParse
    /\ called = IdleCall
    /\ agent = IdleAgent
    /\ \E initial_mode \in Modes : machine = [mode |-> initial_mode,
                                              calls |-> <<>>]

\* The machine after a call, with the call and what it returned recorded.
ModeCalled(op, arg, trigger, changed) ==
    /\ Len(machine.calls) < MaxCalls
    /\ machine' = [mode |-> changed.mode,
                   calls |-> Append(machine.calls,
                       [op |-> op, arg |-> arg, trigger |-> trigger,
                        before |-> machine.mode,
                        returned |-> changed.transition,
                        after |-> changed.mode])]
    /\ UNCHANGED <<clock, det, signals, agg, mat, sessions, voice_sessions,
                   response, agent, pending, parsed, called>>

ModeSetMode ==
    \E mode \in Modes, trigger \in ModeTriggers :
        ModeCalled("set_mode", mode, trigger,
                   set_mode(machine.mode, mode, trigger))

ModeApplyVoiceCommand ==
    \E utterance \in ModeUtterances :
        ModeCalled("apply_voice_command", utterance, utterance,
                   apply_voice_command(machine.mode, utterance))

NextMode ==
    \/ ModeSetMode
    \/ ModeApplyVoiceCommand

SpecMode == InitMode /\ [][NextMode]_vars

\* An utterance that is one of the switch phrases, as written in modes.py.
IsBotPhrase(u) == \E i \in DOMAIN BOT_SWITCH_PHRASES : u = BOT_SWITCH_PHRASES[i]

IsHumanPhrase(u) ==
    \E i \in DOMAIN HUMAN_SWITCH_PHRASES : u = HUMAN_SWITCH_PHRASES[i]

\* Calls n and n + 1 are apply_voice_command with a bot-phrase and then with
\* a human-phrase.
BotThenHuman(n) ==
    /\ n \in DOMAIN machine.calls /\ n + 1 \in DOMAIN machine.calls
    /\ machine.calls[n].op = "apply_voice_command"
    /\ machine.calls[n + 1].op = "apply_voice_command"
    /\ IsBotPhrase(machine.calls[n].arg)
    /\ IsHumanPhrase(machine.calls[n + 1].arg)

\* The call returned a transition from the mode before it to the mode after.
Transitioned(call) ==
    /\ call.returned # NoTransition
    /\ call.returned.previous = call.before
    /\ call.returned.current = call.after
    /\ call.before # call.after

\* C13 (as claimed): from every state of the machine, a bot-phrase and then
\* a human-phrase yield two transitions, each from the mode before its call
\* to the mode after it.
C13_AlwaysTwo ==
    \A n \in 1..MaxCalls :
        BotThenHuman(n) =>
            (Transitioned(machine.calls[n])
                /\ Transitioned(machine.calls[n + 1]))

\* C13 (amended): a bot-phrase and then a human-phrase yield two transitions
\* when the machine is in HUMAN_DRIVES before them; in BOT_DRIVES (the
\* initial mode) the bot-phrase returns no transition and leaves the mode,
\* and the human-phrase yields the only transition.  Every transition goes
\* from the mode before its call to the mode after it, and the machine ends
\* in HUMAN_DRIVES.
C13_TwoFromHumanDrives ==
    \A n \in 1..MaxCalls :
        BotThenHuman(n) =>
            /\ IF machine.calls[n].before = HUMAN_DRIVES
               THEN Transitioned(machine.calls[n])
               ELSE /\ machine.calls[n].returned = NoTransition
                    /\ machine.calls[n].after = BOT_DRIVES
            /\ Transitioned(machine.calls[n + 1])
            /\ machine.calls[n + 1].before = BOT_DRIVES
            /\ machine.calls[n + 1].after = HUMAN_DRIVES

\* A bot-phrase and then a human-phrase have been applied to a machine that
\* was in BOT_DRIVES: one transition came back.
C13_Witness ==
    /\ BotThenHuman(1)
    /\ machine.calls[1].before = BOT_DRIVES
    /\ machine.calls[1].returned = NoTransition
    /\ machine.calls[2].returned # NoTransition
    /\ machine.mode = HUMAN_DRIVES

\* C14: set_mode(target, trigger) returns no transition and leaves the mode
\* when target is the current mode; otherwise the mode becomes target and
\* the transition returned has previous = the old mode, current = target and
\* the trigger given.
C14_SetMode ==
    \A n \in DOMAIN machine.calls :
        machine.calls[n].op = "set_mode" =>
            IF machine.calls[n].arg = machine.calls[n].before
            THEN /\ machine.calls[n].returned = NoTransition
                 /\ machine.calls[n].after = machine.calls[n].before
            ELSE /\ machine.calls[n].after = machine.calls[n].arg
                 /\ machine.calls[n].returned =
                       [previous |-> machine.calls[n].before,
                        current |-> machine.calls[n].arg,
                        trigger |-> machine.calls[n].trigger]

\* set_mode has been called with the current mode and, after it, with the
\* other mode.
C14_Witness ==
    /\ Len(machine.calls) >= 2
    /\ machine.calls[1].op = "set_mode"
    /\ machine.calls[1].arg = machine.calls[1].before
    /\ machine.calls[2].op = "set_mode"
    /\ machine.calls[2].arg # machine.calls[2].before
    /\ machine.mode = machine.calls[2].arg

\* The normalized utterance contains a phrase of the bot-drives set, of the
\* human-drives set.
NamesBot(u) == AnyPhraseIn(BOT_SWITCH_PHRASES, normalize_utterance(u))

NamesHuman(u) == AnyPhraseIn(HUMAN_SWITCH_PHRASES, normalize_utterance(u))

\* C30 (as claimed): apply_voice_command on an utterance that contains no
\* phrase of either set makes no transition; on one that contains a phrase
\* of exactly one set it targets the mode of that set; and no utterance
\* contains a phrase of both sets, so that no outcome depends on the order
\* in which the sets are tried.
C30_NoAmbiguousUtterance ==
    \A i \in DOMAIN machine.calls :
        machine.calls[i].op = "apply_voice_command" =>
            /\ (~NamesBot(machine.calls[i].arg)
                  /\ ~NamesHuman(machine.calls[i].arg))
                  => /\ machine.calls[i].returned = NoTransition
                     /\ machine.calls[i].after = machine.calls[i].before
            /\ (NamesBot(machine.calls[i].arg)
                  /\ ~NamesHuman(machine.calls[i].arg))
                  => machine.calls[i].after = BOT_DRIVES
            /\ (NamesHuman(machine.calls[i].arg)
                  /\ ~NamesBot(machine.calls[i].arg))
                  => machine.calls[i].after = HUMAN_DRIVES
            /\ ~(NamesBot(machine.calls[i].arg)
                  /\ NamesHuman(machine.calls[i].arg))

----------------------------------------------------------------------------
(* SpecBot: one PairProgrammingVoiceBot, as a voice session holds it, with *)
(* its workspace: mode switches, observed runs, the tool methods, the      *)
(* journal export and the bot_step endpoint of the service                 *)

\* Calls made on the bot.
MaxToolCalls == 3

BotRoot == <<"questions", "two">>

BotFiles ==
    (BotRoot \o <<"ruleengine.py">>) :> <<"a", "b", "a">>
        @@ (BotRoot \o <<"desc.md">>) :> <<"d">>
        @@ <<"questions", "secret.txt">> :> <<"s">>

BotPaths ==
    {<<"ruleengine.py">>, <<"..", "secret.txt">>, <<"missing.py">>,
     <<"..", "ruleengine.py">>}

PatchTexts == {<<"a">>, <<"b">>}

Backends == {"none", "unreachable", "ok"}

\* Times of the calls: the start, the idle threshold, the level wall.
BotTimes == {0, 30, 300}

BotCodes == {Code(1), Code(9)}

\* A request for help that takes the turn as well.
UHelpMyTurn ==
    <<"h", "e", "l", "p", ",", " ", "m", "y", " ", "t", "u", "r", "n">>

BotUtterances ==
    {UTakeOver, ULetMeTry, <<"H", "e", "l", "p", "!">>, UHelpMyTurn}

InitBot ==
    /\ clock = 0
    /\ det = NewDetector
    /\ signals = <<>>
    /\ agg = IdleAgg
    /\ mat = IdleMat
    /\ sessions = <<>>
    /\ voice_sessions = <<>>
    /\ response = NoResponse
    /\ pending = <<>>
    /\ parsed = IdleParse
    /\ called = IdleCall
    /\ machine = IdleMachine
    /\ agent = [bot |-> [NewBot EXCEPT !.det = on_level_start(@, 1, 0)],
                fs |-> BotFiles, last |-> NoCall, ncalls |-> 0]

\* The bot and the file system after a call, and the call recorded.
BotCalled(method, action, mode, r) ==
    /\ agent.ncalls < MaxToolCalls
    /\ agent' = [bot |-> r.bot, fs |-> r.fs,
                 last |-> [method |-> method, action |-> action,
                           mode |-> mode, outcome |-> r.result.outcome,
                           performed |-> r.performed],
                 ncalls |-> agent.ncalls + 1]
    /\ UNCHANGED <<clock, det, signals, agg, mat, sessions, voice_sessions,
                   response, machine, pending, parsed, called>>

\* A tool method of the bot, called in the mode the bot is in.
ToolCalled(action, r) == BotCalled("tool", action, agent.bot.mode, r)

\* A tool method of the bot that takes a path, called in the mode the bot is
\* in: the call recorded with its path and the value it returned.
PathToolCalled(action, path, r) ==
    /\ agent.ncalls < MaxToolCalls
    /\ agent' = [bot |-> r.bot, fs |-> r.fs,
                 last |-> [method |-> "tool", action |-> action,
                           mode |-> agent.bot.mode,
                           outcome |-> r.result.outcome,
                           performed |-> r.performed, path |-> path,
                           value |-> r.result.value],
                 ncalls |-> agent.ncalls + 1]
    /\ UNCHANGED <<clock, det, signals, agg, mat, sessions, voice_sessions,
                   response, machine, pending, parsed, called>>

\* A method of the bot that watches the candidate: the call recorded with
\* its argument, the hint it returned and the acknowledgement of a mode
\* switch.
CoachCalled(method, arg, o, ack) ==
    /\ agent.ncalls < MaxToolCalls
    /\ agent' = [bot |-> o.bot, fs |-> agent.fs,
                 last |-> [method |-> method, action |-> "none",
                           mode |-> agent.bot.mode, outcome |-> "returned",
                           performed |-> {}, arg |-> arg, hint |-> o.hint,
                           ack |-> ack],
                 ncalls |-> agent.ncalls + 1]
    /\ UNCHANGED <<clock, det, signals, agg, mat, sessions, voice_sessions,
                   response, machine, pending, parsed, called>>

BotTick ==
    /\ \E t \in BotTimes : t > clock /\ clock' = t
    /\ UNCHANGED <<det, signals, agg, mat, sessions, voice_sessions,
                   response, machine, agent, pending, parsed, called>>

BotObserveCodeUpdate ==
    \E code \in BotCodes :
        CoachCalled("observe_code_update", code,
                    observe_code_update(agent.bot, code, clock), "none")

BotPeriodicCheck ==
    \E failing \in BOOLEAN :
        CoachCalled("periodic_check", failing,
                    periodic_check(agent.bot, 1, failing, clock), "none")

BotHandleVoiceInput ==
    \E utterance \in BotUtterances :
        CoachCalled("handle_voice_input", utterance,
                    handle_voice_input(agent.bot, utterance, clock),
                    voice_ack(agent.bot, utterance))

BotSetMode ==
    \E mode \in Modes :
        BotCalled("set_mode", "none", agent.bot.mode,
                  Acted(bot_set_mode(agent.bot, mode, "manual", clock),
                        agent.fs, Returned(NoneVal), {}))

BotObserveRun ==
    \E exit_code \in {0, 1} :
        CoachCalled("observe_run_result", exit_code,
                    observe_run_result(agent.bot, exit_code, <<>>, 0, 1, 1,
                                       clock), "none")

PolicyAssertAllowed ==
    \E mode \in Modes, action \in ToolAction :
        BotCalled("assert_allowed", action, mode,
                  Acted(agent.bot, agent.fs,
                        IF assert_allowed(mode, action) = "allowed"
                        THEN Returned(NoneVal)
                        ELSE Failed(assert_allowed(mode, action)), {}))

BotReadFile ==
    \E path \in BotPaths :
        PathToolCalled(READ_FILE, path,
                       bot_read_file(agent.bot, agent.fs, BotRoot, path))

BotReadDescription ==
    \E level \in {1, 2} :
        ToolCalled(READ_DESCRIPTION,
                   bot_read_description(agent.bot, agent.fs, BotRoot, level))

BotLookupConcept ==
    ToolCalled(LOOKUP_CONCEPT,
               bot_lookup_concept(agent.bot, agent.fs, "recursion"))

BotApplyPatch ==
    \E path \in BotPaths, old_text \in PatchTexts :
        PathToolCalled(APPLY_PATCH, path,
                       bot_apply_patch(agent.bot, agent.fs, BotRoot, path,
                                       old_text, <<"c">>))

BotExecuteTests ==
    \E backend \in Backends :
        ToolCalled(EXECUTE_TESTS,
                   bot_execute_tests(agent.bot, agent.fs, backend))

BotGetCurrentCode ==
    \E path \in BotPaths :
        PathToolCalled(GET_CURRENT_CODE, path,
                       bot_get_current_code(agent.bot, agent.fs, BotRoot,
                                            path))

BotGetRunHistory ==
    ToolCalled(GET_RUN_HISTORY, bot_get_run_history(agent.bot, agent.fs))

BotSaveSessionJournal ==
    BotCalled("save_session_journal", "none", agent.bot.mode,
              save_session_journal(agent.bot, agent.fs, BotRoot))

BotStep ==
    \E llm \in BOOLEAN :
        BotCalled("bot_step", "none", agent.bot.mode,
                  bot_step(agent.bot, agent.fs, BotRoot, llm))

NextBot ==
    \/ BotSetMode
    \/ BotObserveRun
    \/ PolicyAssertAllowed
    \/ BotReadFile
    \/ BotReadDescription
    \/ BotLookupConcept
    \/ BotApplyPatch
    \/ BotExecuteTests
    \/ BotGetCurrentCode
    \/ BotGetRunHistory
    \/ BotSaveSessionJournal
    \/ BotStep
    \/ BotTick
    \/ BotObserveCodeUpdate
    \/ BotPeriodicCheck
    \/ BotHandleVoiceInput

SpecBot == InitBot /\ [][NextBot]_vars

\* The capability table as the specification of the policy gives it.
TableAllows(mode, action) ==
    \/ action \in {"read_file", "read_description", "lookup_concept"}
    \/ mode = "bot_drives" /\ action \in {"apply_patch", "execute_tests"}
    \/ mode = "human_drives"
          /\ action \in {"get_current_code", "get_run_history"}

\* The step is a call of the given kind on the bot.
CallStep(methods) ==
    /\ agent'.ncalls = agent.ncalls + 1
    /\ agent'.last.method \in methods

\* C15: for every mode and action, assert_allowed returns exactly when the
\* action is shared or exclusive to the mode and raises ToolPolicyViolation
\* otherwise, as a check of its own and as the first step of every tool
\* method; the check changes neither the bot nor the files.
C15_AssertAllowed ==
    [][/\ CallStep({"assert_allowed", "tool"}) =>
            (agent'.last.outcome = "ToolPolicyViolation"
                <=> ~TableAllows(agent'.last.mode, agent'.last.action))
       /\ CallStep({"assert_allowed"}) =>
            /\ agent'.last.outcome \in {"returned", "ToolPolicyViolation"}
            /\ agent'.bot = agent.bot
            /\ agent'.fs = agent.fs]_vars

\* assert_allowed has refused apply_patch for HUMAN_DRIVES.
C15_Witness ==
    /\ agent.last.method = "assert_allowed"
    /\ agent.last.mode = HUMAN_DRIVES
    /\ agent.last.action = APPLY_PATCH
    /\ agent.last.outcome = "ToolPolicyViolation"

\* C16 (as claimed): no call on the bot, from its tool methods or from the
\* service, applies a patch or starts a test execution while HUMAN_DRIVES,
\* or reads the current code or the run history while BOT_DRIVES.
C16_GatedByMode ==
    /\ agent.last.performed \cap {"apply_patch", "execute_tests"} # {} =>
          agent.last.mode = "bot_drives"
    /\ agent.last.performed \cap {"get_current_code", "get_run_history"} # {}
          => agent.last.mode = "human_drives"

\* C17: a tool method called in a mode that does not allow its action
\* raises ToolPolicyViolation to the caller, and a call that ends in
\* ToolPolicyViolation leaves the workspace files, the mode, the run
\* history, the detector and the journal as they were.
C17_ViolationNoEffect ==
    [][/\ (CallStep({"tool"})
             /\ ~TableAllows(agent.bot.mode, agent'.last.action)) =>
            agent'.last.outcome = "ToolPolicyViolation"
       /\ (CallStep({"tool"})
             /\ agent'.last.outcome = "ToolPolicyViolation") =>
            /\ agent'.fs = agent.fs
            /\ agent'.bot.mode = agent.bot.mode
            /\ agent'.bot.run_history = agent.bot.run_history
            /\ agent'.bot.det = agent.bot.det
            /\ agent'.bot.journal = agent.bot.journal
            /\ agent'.last.performed = {}]_vars

\* apply_patch has been refused in HUMAN_DRIVES, after a run was observed,
\* and the files are as they were at the start.
C17_Witness ==
    /\ agent.last.method = "tool"
    /\ agent.last.action = APPLY_PATCH
    /\ agent.last.outcome = "ToolPolicyViolation"
    /\ agent.bot.mode = HUMAN_DRIVES
    /\ agent.bot.run_history # <<>>
    /\ agent.fs = BotFiles

----------------------------------------------------------------------------
(* SpecConc: execute requests served by the worker threads of the server.  *)
(* The endpoint is a plain function, which the framework runs in a thread  *)
(* pool: a request reads the session before run_code and writes it after, *)
(* and other requests are served in between.                               *)

\* Execute requests whose tests run at the same time.
MaxPending == 2

ConcEnvs == {[t \in TestTargets |-> OPass1], [t \in TestTargets |-> OError]}

\* execute_code up to the call of run_code: a refusal is answered at once;
\* otherwise the request holds the stage index it read from the session.
ExecuteBegin ==
    \E sid \in 1..MaxSessions, name \in QuestionNames, env \in ConcEnvs :
        /\ Len(pending) < MaxPending
        /\ sid \in DOMAIN voice_sessions =>
              Len(voice_sessions[sid].bot.run_history) + Len(pending)
                  < MaxRuns
        /\ IF execute_refused(sessions, sid, name, clock) # 0
           THEN Serve(execute_code(sessions, voice_sessions, agg, sid, name,
                                   ServiceFiles, env, clock, 0))
           ELSE /\ sessions' = get(sessions, sid, clock)
                /\ pending' = Append(pending,
                      [session_id |-> sid, question_name |-> name,
                       files |-> ServiceFiles, env |-> env,
                       stage_index |-> sessions[sid].current_stage_index])
                /\ UNCHANGED <<det, signals, agg, mat, voice_sessions,
                               response, machine, agent, parsed, called>>
        /\ UNCHANGED clock

\* The sequence without its element i.
Without(seq, i) == SubSeq(seq, 1, i - 1) \o SubSeq(seq, i + 1, Len(seq))

\* execute_code from the return of run_code on, for one of the requests
\* whose tests were running.
ExecuteEnd ==
    \E i \in DOMAIN pending :
        /\ Apply(execute_ran(sessions, voice_sessions, pending[i].session_id,
                    RunCall(agg.tmp,
                            QuestionByName(pending[i].question_name),
                            pending[i].files, pending[i].stage_index,
                            pending[i].env),
                    clock))
        /\ pending' = Without(pending, i)
        /\ UNCHANGED clock

NextConc ==
    \/ StartAssessment
    \/ Tick
    \/ ExecuteBegin
    \/ ExecuteEnd

SpecConc == Init /\ [][NextConc]_vars

\* C18 (as claimed): when execute requests for one session interleave, the
\* index of the session advances by one only at the return of a run that
\* was at the index the session has then, and it never exceeds the last
\* stage index.
C18_NoDoubleAdvance ==
    [][\A sid \in DOMAIN sessions :
         \A k \in {StageIndex(sid)} :
            /\ StageIndex(sid)' # k =>
                  (StageIndex(sid)' = k + 1 /\ agg'.stage_index = k)
            /\ StageIndex(sid)' <= StageCount(sid) - 1]_vars

----------------------------------------------------------------------------
(* SpecParse: parse_unittest_output called on the text of a test process   *)

\* Lines of an output text, and calls made on one text.
MaxLines == 2

MaxParses == 2

PartKeys == {"failures", "errors", "skipped"}

PartValues == {1, 2, NotANumber}

OutputParts == PartKeys \X PartValues

OutputLines ==
    {RanLine(n) : n \in {1, 3}}
        \cup {FailedLine(parts) :
                parts \in {<<>>} \cup {<<a>> : a \in OutputParts}
                            \cup {<<a, b>> : a, b \in OutputParts}}
        \cup {OtherLine}

RECURSIVE TextsUpTo(_)
TextsUpTo(n) ==
    IF n = 0 THEN {<<>>}
    ELSE TextsUpTo(n - 1)
            \cup {Append(t, l) : t \in TextsUpTo(n - 1), l \in OutputLines}

InitParse ==
    /\ clock = 0
    /\ det = NewDetector
    /\ signals = <<>>
    /\ agg = IdleAgg
    /\ mat = IdleMat
    /\ sessions = <<>>
    /\ voice_sessions = <<>>
    /\ response = NoResponse
    /\ pending = <<>>
    /\ machine = IdleMachine
    /\ agent = IdleAgent
    /\ called = IdleCall
    /\ \E text \in TextsUpTo(MaxLines) :
          parsed = [output |-> text, results |-> <<>>]

ParseOutput ==
    /\ Len(parsed.results) < MaxParses
    /\ parsed' = [parsed EXCEPT
                    !.results = Append(@, parse_lines(parsed.output))]
    /\ UNCHANGED <<clock, det, signals, agg, mat, sessions, voice_sessions,
                   response, machine, agent, pending, called>>

NextParse == ParseOutput

SpecParse == InitParse /\ [][NextParse]_vars

\* The lines of the text that are a test summary ("Ran n tests") and those
\* that are a failure summary ("FAILED (...)").
RanAt == {i \in DOMAIN parsed.output : parsed.output[i].kind = "ran"}

FailedAt ==
    {i \in DOMAIN parsed.output :
        parsed.output[i].kind = "failed" /\ parsed.output[i].parts # <<>>}

First(S) == CHOOSE i \in S : \A j \in S : i <= j

\* The count the failure summary gives for key: the value of its last part
\* with that key, 0 when the line or the part is absent.
CountOfKey(key) ==
    IF FailedAt = {} THEN 0
    ELSE LET parts == parsed.output[First(FailedAt)].parts
             at    == {i \in DOMAIN parts : parts[i][1] = key}
         IN  IF at = {} THEN 0
             ELSE parts[CHOOSE i \in at : \A j \in at : j <= i][2]

\* Every count of failures or errors in the failure summary is a number.
CountsAreNumbers ==
    FailedAt # {} =>
        \A i \in DOMAIN parsed.output[First(FailedAt)].parts :
            LET part == parsed.output[First(FailedAt)].parts[i]
            IN  part[1] \in {"failures", "errors"} => part[2] # NotANumber

SummaryTotal ==
    IF RanAt = {} THEN 0 ELSE parsed.output[First(RanAt)].n

\* C21: with total taken from the test-summary line and failures and errors
\* from the failure-summary line (each 0 when absent), the result is
\* passed = max(0, total - failures - errors); without any summary line it
\* is total = 0 and passed = 0; and every call on the same output returns
\* the same pair.
C21_Classification ==
    \A i \in DOMAIN parsed.results :
        /\ parsed.results[i] = parsed.results[1]
        /\ CountsAreNumbers =>
              /\ ~parsed.results[i].raised
              /\ parsed.results[i].counts[2] = SummaryTotal
              /\ parsed.results[i].counts[1]
                    = Max(0, SummaryTotal - CountOfKey("failures")
                                - CountOfKey("errors"))
              /\ (RanAt = {} /\ FailedAt = {})
                    => parsed.results[i].counts = <<0, 0>>

\* A text whose failure summary counts more failures and errors than the
\* test summary counts tests, parsed twice.
C21_Witness ==
    /\ Len(parsed.results) = 2
    /\ parsed.output = <<RanLine(1),
                         FailedLine(<<<<"failures", 1>>, <<"errors", 2>>>>)>>
    /\ parsed.results[2].counts = <<0, 1>>

\* The cooldown of the bot's detector has elapsed at the time of the call.
BotCooldownElapsed ==
    agent.bot.det.last_signal_time = NoTime
        \/ clock - agent.bot.det.last_signal_time
              >= agent.bot.det.nudge_cooldown

\* The idle rule qualifies on the bot's detector at the time of the call.
IdleQualifies(tests_still_failing) ==
    /\ tests_still_failing
    /\ agent.bot.det.last_edit_time # NoTime
    /\ clock - agent.bot.det.last_edit_time
          >= agent.bot.det.idle_threshold_seconds

\* The level-wall rule qualifies on the bot's detector at the time of the
\* call.
WallQualifies(current_level) ==
    /\ current_level \in DOMAIN agent.bot.det.level_start_time
    /\ clock - agent.bot.det.level_start_time[current_level]
          >= agent.bot.det.level_wall_seconds

\* C26: a periodic_check call emits at most one signal, the idle rule having
\* priority: the call logs at most one struggle moment and returns at most
\* one hint, the hint is level_wall only when the idle rule does not
\* qualify, and when both rules qualify, the cooldown has elapsed and the
\* candidate drives, the hint is long_pause.
C26_IdleBeforeWall ==
    [][CallStep({"periodic_check"}) =>
          /\ agent'.last.hint \in {"none", "long_pause", "level_wall"}
          /\ Len(agent'.bot.journal.struggle_moments)
                = Len(agent.bot.journal.struggle_moments)
                     + (IF agent'.last.hint = "none" THEN 0 ELSE 1)
          /\ agent'.last.hint = "level_wall" =>
                ~IdleQualifies(agent'.last.arg)
          /\ (/\ IdleQualifies(agent'.last.arg)
              /\ WallQualifies(1)
              /\ BotCooldownElapsed
              /\ agent.bot.mode = HUMAN_DRIVES) =>
                /\ agent'.last.hint = "long_pause"
                /\ agent'.bot.det.last_signal_time = clock]_vars

\* periodic_check returned long_pause at a time when the level wall of the
\* current level had been reached as well.
C26_Witness ==
    /\ agent.last.method = "periodic_check"
    /\ agent.last.hint = "long_pause"
    /\ clock - agent.bot.det.level_start_time[1]
          >= agent.bot.det.level_wall_seconds
    /\ agent.bot.det.last_signal_time = clock

\* The four methods through which the bot watches the candidate.
WatchingMethods ==
    {"observe_code_update", "observe_run_result", "periodic_check",
     "handle_voice_input"}

\* C28: struggle detection is gated by the mode.  A call of
\* observe_code_update, observe_run_result, periodic_check or
\* handle_voice_input made while BOT_DRIVES returns no coaching hint, leaves
\* the detector as it was and logs no struggle moment; a hint is returned
\* only by a call made while HUMAN_DRIVES.
C28_DetectionGated ==
    [][CallStep(WatchingMethods) =>
          /\ agent.bot.mode = BOT_DRIVES =>
                /\ agent'.last.hint = "none"
                /\ agent'.bot.det = agent.bot.det
                /\ agent'.bot.journal.struggle_moments
                      = agent.bot.journal.struggle_moments
          /\ agent'.last.hint # "none" => agent.bot.mode = HUMAN_DRIVES]_vars

\* The candidate asked for help while the bot was driving, and no hint came
\* back.
C28_Witness ==
    /\ agent.last.method = "handle_voice_input"
    /\ agent.last.mode = BOT_DRIVES
    /\ agent.last.ack = "none"
    /\ \E marker \in help_markers :
          IsSubstring(marker, Lower(agent.last.arg))
    /\ agent.last.hint = "none"
    /\ agent.bot.det.last_signal_time = NoTime

\* C29: the mode is mutated only through explicit transition requests.  A
\* step that changes the bot's mode is a set_mode call or a
\* handle_voice_input call whose utterance holds a switch phrase; every
\* other call on the bot leaves the mode as it was, and each change is
\* logged as one mode switch.
C29_ModeOnlyOnRequest ==
    [][/\ agent'.bot.mode # agent.bot.mode =>
            /\ \/ CallStep({"set_mode"})
               \/ /\ CallStep({"handle_voice_input"})
                  /\ detect_mode_command(agent'.last.arg) = agent'.bot.mode
            /\ Len(agent'.bot.journal.mode_switches)
                  = Len(agent.bot.journal.mode_switches) + 1
       /\ (/\ agent'.ncalls = agent.ncalls + 1
           /\ agent'.last.method \notin {"set_mode", "handle_voice_input"})
             => agent'.bot.mode = agent.bot.mode]_vars

\* A voice command has handed the turn over.
C29_Witness ==
    /\ agent.last.method = "handle_voice_input"
    /\ agent.last.ack # "none"
    /\ agent.bot.mode # agent.last.mode
    /\ Len(agent.bot.journal.mode_switches) = 1

\* C31: handle_voice_input yields zero or one response per utterance.  The
\* mode-switch acknowledgement is returned exactly when the call changed the
\* mode, and it names the mode the bot is in after the call; an utterance
\* that changed the mode is not passed to the struggle detector, so it gets
\* no hint and leaves the detector and the struggle log as they were.
C31_OneResponse ==
    [][CallStep({"handle_voice_input"}) =>
          /\ agent'.last.ack # "none" <=> agent'.bot.mode # agent.bot.mode
          /\ agent'.last.ack = "taking over" => agent'.bot.mode = BOT_DRIVES
          /\ agent'.last.ack = "your turn" => agent'.bot.mode = HUMAN_DRIVES
          /\ agent'.last.ack = "none" \/ agent'.last.hint = "none"
          /\ agent'.bot.mode # agent.bot.mode =>
                /\ agent'.last.hint = "none"
                /\ agent'.bot.det = agent.bot.det
                /\ agent'.bot.journal.struggle_moments
                      = agent.bot.journal.struggle_moments]_vars

\* An utterance that asks for help and takes the turn has switched the mode
\* to HUMAN_DRIVES, and was acknowledged without a hint.
C31_Witness ==
    /\ agent.last.method = "handle_voice_input"
    /\ agent.last.arg = UHelpMyTurn
    /\ agent.last.mode = BOT_DRIVES
    /\ agent.bot.mode = HUMAN_DRIVES
    /\ agent.last.ack = "your turn"
    /\ agent.last.hint = "none"

\* The tool actions that take a path of the workspace.
PathActions == {READ_FILE, GET_CURRENT_CODE, APPLY_PATCH}

\* The relative path, joined to the root and resolved, lies outside the
\* root: the root's components are not the first components of the result.
Outside(root, resolved) ==
    ~(Len(resolved) >= Len(root) /\ SubSeq(resolved, 1, Len(root)) = root)

\* C32: workspace escape fails closed.  A read_file, get_current_code or
\* apply_patch call whose path resolves outside the workspace root does not
\* return: it raises WorkspaceError whenever the policy lets the call reach
\* the workspace, hands back no file content, carries out no operation and
\* leaves every file, in and out of the root, as it was.
C32_EscapeFailsClosed ==
    [][(/\ CallStep({"tool"})
        /\ agent'.last.action \in PathActions
        /\ Outside(BotRoot, JoinResolve(BotRoot, agent'.last.path))) =>
          /\ agent'.last.outcome # "returned"
          /\ TableAllows(agent.bot.mode, agent'.last.action) =>
                agent'.last.outcome = "WorkspaceError"
          /\ agent'.last.value = NoneVal
          /\ agent'.last.performed = {}
          /\ agent'.fs = agent.fs]_vars

\* apply_patch has been called by the driving bot on "../ruleengine.py", a
\* path out of the root whose name is that of a file in the root, and has
\* raised WorkspaceError with the files as they were at the start.
C32_Witness ==
    /\ agent.last.method = "tool"
    /\ agent.last.action = APPLY_PATCH
    /\ agent.last.mode = BOT_DRIVES
    /\ agent.last.path = <<"..", "ruleengine.py">>
    /\ agent.last.outcome = "WorkspaceError"
    /\ agent.fs = BotFiles

----------------------------------------------------------------------------
(* SpecCreate: sessions started with any requested duration                *)

MaxStarts == 3

\* duration_minutes of the request: absent, negative, the minimum, inside
\* the bounds, the maximum, and above it.
StartDurations == {NoDuration, -5, 1, 45, 120, 121, 500}

\* start_assessment served, the request kept beside the response.
StartAnyDuration ==
    /\ called.n < MaxStarts
    /\ \E name \in QuestionNames \cup {"missing"},
          duration \in StartDurations :
          /\ sessions' = start_assessment(sessions, voice_sessions, agg,
                                          name, duration, clock).sessions
          /\ voice_sessions' =
                start_assessment(sessions, voice_sessions, agg, name,
                                 duration, clock).voice_sessions
          /\ response' = start_assessment(sessions, voice_sessions, agg,
                                          name, duration, clock).response
          /\ called' = [n |-> called.n + 1, op |-> "start_assessment",
                        arg |-> <<name, duration>>, signal |-> NoSignal]
    /\ UNCHANGED <<clock, det, signals, agg, mat, machine, agent, pending,
                   parsed>>

NextCreate == StartAnyDuration

SpecCreate == Init /\ [][NextCreate]_vars

\* The session the last request created.
Created == sessions[Len(sessions)]

\* The last request was served with a new session.
StartServed ==
    /\ called.op = "start_assessment"
    /\ response.status = 200
    /\ response.session_id = Len(sessions)

\* C33: session creation clamps the duration into [min, max] for every
\* requested value.  Every stored session has min <= duration <= max; a
\* request without a duration gets the question's default, a duration below
\* the minimum gets the minimum, one above the maximum gets the maximum, and
\* one inside the bounds is stored as requested.
C33_DurationClamped ==
    /\ \A sid \in DOMAIN sessions :
          /\ sessions[sid].duration_minutes >= MIN_DURATION_MINUTES
          /\ sessions[sid].duration_minutes <= MAX_DURATION_MINUTES
    /\ StartServed =>
          \A requested \in {called.arg[2]} :
             /\ requested = NoDuration =>
                   Created.duration_minutes
                      = QuestionByName(called.arg[1]).default_duration_minutes
             /\ (requested # NoDuration
                    /\ requested < MIN_DURATION_MINUTES) =>
                   Created.duration_minutes = MIN_DURATION_MINUTES
             /\ requested > MAX_DURATION_MINUTES =>
                   Created.duration_minutes = MAX_DURATION_MINUTES
             /\ (requested >= MIN_DURATION_MINUTES
                    /\ requested <= MAX_DURATION_MINUTES) =>
                   Created.duration_minutes = requested

\* Sessions were started with a negative duration, with one above the
\* maximum and with none: the store holds the minimum, the maximum and the
\* default.
C33_Witness ==
    /\ StartServed
    /\ Len(sessions) = 3
    /\ called.arg[2] = NoDuration
    /\ {sessions[sid].duration_minutes : sid \in DOMAIN sessions}
          = {MIN_DURATION_MINUTES, MAX_DURATION_MINUTES,
             DEFAULT_DURATION_MINUTES}

\* The mode_switches of the journal are a chain from BOT_DRIVES to the mode
\* of the bot: every record changes the mode, starts where the one before it
\* ended, and the last one ends in the current mode.
FaithfulLog(bot) ==
    /\ \A i \in DOMAIN bot.journal.mode_switches :
          /\ bot.journal.mode_switches[i].previous
                # bot.journal.mode_switches[i].current
          /\ bot.journal.mode_switches[i].previous =
                IF i = 1 THEN BOT_DRIVES
                ELSE bot.journal.mode_switches[i - 1].current
    /\ bot.mode =
          IF bot.journal.mode_switches = <<>> THEN BOT_DRIVES
          ELSE bot.journal.mode_switches[
                   Len(bot.journal.mode_switches)].current

\* C38: the journal's mode_switches list is a faithful log of the mode.  A
\* step adds one record, at the end, exactly when it changes the mode, and
\* none for a request that leaves the mode as it is; every record has
\* previous # current, each record's previous is the preceding record's
\* current (BOT_DRIVES for the first), and the last record's current is the
\* current mode.
C38_FaithfulModeLog ==
    [][/\ FaithfulLog(agent'.bot)
       /\ IF agent'.bot.mode # agent.bot.mode
          THEN /\ Len(agent'.bot.journal.mode_switches)
                     = Len(agent.bot.journal.mode_switches) + 1
               /\ SubSeq(agent'.bot.journal.mode_switches, 1,
                         Len(agent.bot.journal.mode_switches))
                     = agent.bot.journal.mode_switches
          ELSE agent'.bot.journal.mode_switches
                  = agent.bot.journal.mode_switches]_vars

\* Three switches are logged, the last one made by a voice command, after a
\* request for the mode the bot was already in.
C38_Witness ==
    /\ Len(agent.bot.journal.mode_switches) = 3
    /\ agent.last.method = "handle_voice_input"
    /\ agent.last.ack # "none"
    /\ agent.bot.mode = HUMAN_DRIVES

----------------------------------------------------------------------------
(* SpecShared: several sessions served by one process over one questions   *)
(* folder.  agent.fs is the disk; the bot of a voice session works in the   *)
(* folder of its question.                                                  *)

MaxSharedSessions == 2

MaxSharedSteps == 5

\* QUESTIONS_ROOT / question_name
workspace_root(question_name) == <<"questions", question_name>>

SharedDisk ==
    (workspace_root("two") \o <<"ruleengine.py">>) :> <<"a", "b", "a">>
        @@ (workspace_root("two") \o <<"hidden_level2.py">>) :> <<"h">>
        @@ (workspace_root("three") \o <<"ruleengine.py">>) :> <<"a", "b">>

\* Every target passes.
SharedEnv == [t \in TestTargets |-> OPass1]

InitShared ==
    /\ clock = 0
    /\ det = NewDetector
    /\ signals = <<>>
    /\ agg = IdleAgg
    /\ mat = IdleMat
    /\ sessions = <<>>
    /\ voice_sessions = <<>>
    /\ response = NoResponse
    /\ pending = <<>>
    /\ parsed = IdleParse
    /\ called = IdleCall
    /\ machine = IdleMachine
    /\ agent = [IdleAgent EXCEPT !.fs = SharedDisk]

\* One more operation, made on the session sid.
SharedCalled(op, sid) ==
    /\ called.n < MaxSharedSteps
    /\ called' = [n |-> called.n + 1, op |-> op, arg |-> sid,
                  signal |-> NoSignal]

\* A request of the service served on the session sid.
SharedServe(op, sid, r) ==
    /\ SharedCalled(op, sid)
    /\ sessions' = r.sessions
    /\ voice_sessions' = r.voice_sessions
    /\ agg' = r.agg
    /\ response' = r.response
    /\ UNCHANGED <<clock, det, signals, mat, machine, agent, pending, parsed>>

\* A method of the bot of the session sid, which gives the bot and the disk
\* after it.
SharedBot(op, sid, bot, fs) ==
    /\ SharedCalled(op, sid)
    /\ voice_sessions' = [voice_sessions EXCEPT ![sid].bot = bot]
    /\ agent' = [agent EXCEPT !.fs = fs]
    /\ UNCHANGED <<clock, det, signals, agg, mat, sessions, response,
                   machine, pending, parsed>>

SharedStart ==
    /\ Len(sessions) < MaxSharedSessions
    /\ \E name \in QuestionNames :
          SharedServe("start", Len(sessions) + 1,
                      start_assessment(sessions, voice_sessions, agg, name,
                                       NoDuration, clock))

SharedExecute ==
    \E sid \in DOMAIN sessions :
        SharedServe("execute", sid,
                    execute_code(sessions, voice_sessions, agg, sid,
                                 sessions[sid].question_name, ServiceFiles,
                                 SharedEnv, clock, 0))

SharedSetMode ==
    \E sid \in DOMAIN voice_sessions, mode \in Modes :
        SharedServe("voice_mode", sid,
                    set_voice_mode(sessions, voice_sessions, agg, sid, mode,
                                   clock))

SharedObserveCode ==
    \E sid \in DOMAIN voice_sessions, code \in BotCodes :
        SharedBot("observe_code_update", sid,
                  observe_code_update(voice_sessions[sid].bot, code,
                                      clock).bot,
                  agent.fs)

SharedApplyPatch ==
    \E sid \in DOMAIN voice_sessions, old_text \in PatchTexts :
        SharedBot("apply_patch", sid,
                  bot_apply_patch(
                      voice_sessions[sid].bot, agent.fs,
                      workspace_root(voice_sessions[sid].question_name),
                      <<"ruleengine.py">>, old_text, <<"c">>).bot,
                  bot_apply_patch(
                      voice_sessions[sid].bot, agent.fs,
                      workspace_root(voice_sessions[sid].question_name),
                      <<"ruleengine.py">>, old_text, <<"c">>).fs)

NextShared ==
    \/ SharedStart
    \/ SharedExecute
    \/ SharedSetMode
    \/ SharedObserveCode
    \/ SharedApplyPatch

SpecShared == InitShared /\ [][NextShared]_vars

\* The files of the disk under a root: what a workspace with this root
\* reads, and what materialize_question copies for an execution.
FilesUnder(fs, root) ==
    [p \in {f \in DOMAIN fs : IsParent(root, f)} |-> fs[p]]

\* C35 (as claimed): an operation on one session leaves every other
\* session's stage index, score and status, its bot's mode, detector and
\* run history, and the contents of the files its workspace and its
\* executions read, as they were.
C35_PerSession ==
    [][\A other \in DOMAIN sessions :
          (called'.n = called.n + 1 /\ called'.arg # other) =>
             /\ sessions'[other] = sessions[other]
             /\ voice_sessions'[other].bot.mode
                   = voice_sessions[other].bot.mode
             /\ voice_sessions'[other].bot.det
                   = voice_sessions[other].bot.det
             /\ voice_sessions'[other].bot.run_history
                   = voice_sessions[other].bot.run_history
             /\ FilesUnder(agent'.fs,
                           workspace_root(sessions[other].question_name))
                   = FilesUnder(agent.fs,
                           workspace_root(sessions[other].question_name))
      ]_vars

----------------------------------------------------------------------------
(* SpecWatch: runs observed by a bot whose mode is switched between them    *)

MaxWatchCalls == 6

\* A call on the bot and what it returned.
Watched(method, arg, o) ==
    /\ agent.ncalls < MaxWatchCalls
    /\ agent' = [bot |-> o.bot, fs |-> agent.fs,
                 last |-> [method |-> method, action |-> "none",
                           mode |-> agent.bot.mode, outcome |-> "returned",
                           performed |-> {}, arg |-> arg, hint |-> o.hint,
                           ack |-> "none"],
                 ncalls |-> agent.ncalls + 1]
    /\ UNCHANGED <<clock, det, signals, agg, mat, sessions, voice_sessions,
                   response, machine, pending, parsed, called>>

WatchSetMode ==
    \E mode \in Modes :
        Watched("set_mode", mode,
                [bot |-> bot_set_mode(agent.bot, mode, "manual", clock),
                 hint |-> "none"])

WatchObserveRun ==
    \E run \in DetRuns :
        Watched("observe_run_result", run,
                observe_run_result(agent.bot, run[1], run[2], 0, 1, 1, clock))

NextWatch == WatchSetMode \/ WatchObserveRun

SpecWatch == InitBot /\ [][NextWatch]_vars

\* C37 (as claimed): whenever observe_run_result returns a repeated_failure
\* hint, the last two entries of the bot's run_history, in whatever mode they
\* were observed, both have a nonzero exit code and the same output; so a
\* run observed while BOT_DRIVES between two identical failures prevents the
\* hint.
C37_LastTwoRecorded ==
    [][(/\ agent'.ncalls = agent.ncalls + 1
        /\ agent'.last.method = "observe_run_result"
        /\ agent'.last.hint = "repeated_failure") =>
          \A n \in {Len(agent'.bot.run_history)} :
             /\ n >= 2
             /\ agent'.bot.run_history[n].exit_code # 0
             /\ agent'.bot.run_history[n - 1].exit_code # 0
             /\ agent'.bot.run_history[n].stderr
                   = agent'.bot.run_history[n - 1].stderr]_vars

====
